---- MODULE Spec2Model ----
(***************************************************************************)
(* A model of the RAG subsystem of ngo-automation:                         *)
(*   app/embedding_service.py  EmbeddingService, get_embedding_service     *)
(*   app/rag_service.py        RAGService.query                            *)
(*   app/chunking_service.py   ChunkingService.chunk_text                  *)
(*   app/crud.py               the DocumentChunk functions                 *)
(*   app/models.py             Conversation.get_context_messages           *)
(*                                                                         *)
(* Units.  Similarity scores and confidences are integers in thousandths   *)
(* (0.95 is 950).  Costs are integers in units of 1e-8 USD, so that the    *)
(* price (tokens / 1_000_000) * 0.02 USD is 2 units per token.  A text is  *)
(* a sequence of one-character strings.  An embedding vector is the        *)
(* record [len, of]: its number of dimensions and the text it embeds.      *)
(***************************************************************************)
EXTENDS Integers, Sequences, FiniteSets, TLC

\* ------------------------------------------------------------------ bounds
\* Longest run of non-blank characters in a text.
MaxCore == 10
\* Most blanks before and after the non-blank run.
MaxPad == 1
\* Largest prompt_tokens figure the embedding API reports for one request.
MaxTokens == 2
\* Calls made on one EmbeddingService instance in a run.
MaxCalls == 2
\* Longest list handed to generate_embeddings_batch.
MaxBatchLen == 2
\* Concurrent callers sharing one EmbeddingService instance.
NThreads == 2
\* Most chunks the chunk store holds for one organization.
MaxChunks == 3
\* Queries that reach the embedding step on one RAGService instance in a run.
MaxQueries == 1
\* Longest text handed to chunk_text, in characters.
MaxTextLen == 4
\* Largest of the small chunk_size and overlap values handed to chunk_text.
MaxChunkSize == 3
\* Most sentences in a text whose splitting loop is followed step by step.
MaxUnits == 3
\* Most turns in a Conversation.
MaxMessages == 6
\* Concurrent callers of get_embedding_service.
NCallers == 3
\* Rows inserted into document_chunks in a run: the ids handed out.
MaxIds == 2

\* ------------------------------------------------------- program constants
\* self.dimensions
dimensions == 1536
\* len(text.strip()) < 10
MinTextLen == 10
\* stop=stop_after_attempt(3)
stop_after_attempt == 3
\* int(os.getenv("EMBEDDING_BATCH_SIZE", "100"))
EMBEDDING_BATCH_SIZE == 100
\* (tokens / 1_000_000) * 0.02 USD, in units of 1e-8 USD per token
CostPerToken == 2
\* chunk_text: str = Field(..., min_length=10, max_length=2000)
MinChunkTextLen == 10
MaxChunkTextLen == 2000
\* def get_context_messages(self, limit: int = 5)
DefaultLimit == 5

\* -------------------------------------------------------------------- text
Rep(c, n) == [i \in 1..n |-> c]

MkText(l, n, r) == Rep(" ", l) \o Rep("x", n) \o Rep(" ", r)

\* The texts tried: empty or blank, one character short of the minimum, and
\* from the minimum up, each with and without blanks around it.
CoreLens == {0} \cup ((MinTextLen - 1)..MaxCore)

Texts == {MkText(l, n, r) : l \in 0..MaxPad, n \in CoreLens, r \in 0..MaxPad}

\* The characters str.isspace() holds of, which are those str.strip() removes
\* and \s matches.  A character that has no escape in a string here is written
\* by its code point.
Whitespace ==
    {" ", "\t", "\n", "\r", "\f", "U+000B", "U+001C", "U+001D", "U+001E", "U+001F",
     "U+0085", "U+00A0", "U+1680", "U+2000", "U+2001", "U+2002", "U+2003", "U+2004",
     "U+2005", "U+2006", "U+2007", "U+2008", "U+2009", "U+200A", "U+2028", "U+2029",
     "U+202F", "U+205F", "U+3000"}

IsSpace(c) == c \in Whitespace

RECURSIVE LStrip(_)
LStrip(s) ==
    IF s = <<>> THEN s
    ELSE IF IsSpace(Head(s)) THEN LStrip(Tail(s)) ELSE s

RECURSIVE RStrip(_)
RStrip(s) ==
    IF s = <<>> THEN s
    ELSE IF IsSpace(s[Len(s)]) THEN RStrip(SubSeq(s, 1, Len(s) - 1)) ELSE s

\* str.strip()
strip(s) == RStrip(LStrip(s))

\* ------------------------------------------------------- the embedding API
NoVec == [len |-> -1, of |-> <<>>]

ApiErrors == {"RateLimitError", "AuthenticationError", "MalformedResponse"}

ApiLens == {dimensions - 1, dimensions}

\* What one embeddings.create request can do: raise, or answer with a vector
\* of some length and a prompt_tokens figure.
ApiOutcomes ==
    {[kind |-> k, len |-> 0, tokens |-> 0] : k \in ApiErrors}
    \cup {[kind |-> "ok", len |-> n, tokens |-> t] : n \in ApiLens, t \in 1..MaxTokens}

cost(tokens) == tokens * CostPerToken

\* round(x, ndigits) of the float x that stands for a / b: the nearest integer.
\* A value that lies halfway between two integers (in thousandths or in 1e-6
\* USD) has no exact binary float; the float the arithmetic produced lies
\* just below or just above it and round() goes to that side, so either
\* neighbour can be the result.
RoundDiv(a, b) ==
    LET q == a \div b
        r == a % b
    IN  IF 2 * r < b THEN {q}
        ELSE IF 2 * r > b THEN {q + 1}
        ELSE {q, q + 1}

\* ------------------------------------------------------------------- state
VARIABLES
    total_tokens,   \* EmbeddingService.total_tokens
    total_cost,     \* EmbeddingService.total_cost
    epc,            \* generate_embedding: "idle", "running" (inside the retry loop), "done"
    etext,          \* the text of the call in progress
    attempt,        \* tenacity's attempt_number
    reqs,           \* the API outcomes of the requests this call has made
    eres,           \* what the last finished call gave its caller
    succTokens,     \* history: tokens reported to the calls that returned vectors
    ncalls,         \* history: calls started
    summary,        \* the last get_cost_summary() snapshot
    btexts,         \* the list given to the last generate_embeddings_batch call
    bres,           \* what that call gave its caller
    lastOp,         \* history: the operation that ran last
    \* concurrent callers of the shared instance, one call each
    tpc,            \* where caller t is in its call
    top,            \* the method caller t called
    tattempt,       \* tenacity's attempt_number in caller t's call
    ttokens,        \* caller t's local `tokens` (and `cost`, which is cost(tokens))
    ttmp,           \* the value caller t loaded for its += and has not stored yet
    tstatus,        \* how caller t's call ended
    \* RAGService.query
    qpc,            \* "idle", "embedding", "search", "chat" (a call is out), "done"
    question,       \* the question, stripped once it has passed validation
    top_k,
    min_similarity,
    candidates,     \* what the chunk store holds for the organization, best first
    pages,          \* the "page" entry of the metadata of each of these chunks
    search_results, \* what search_similar_chunks returned
    steps,          \* history: the steps of this query, in the order they ran
    outcomes,       \* history: how the calls out of this query ended, and the
                    \* content the completion call returned
    qres,           \* what the query gave its caller
    \* ChunkingService.chunk_text
    cpc,            \* "idle", "done" (the call has ended)
    ctext,          \* the arguments of the call: text,
    chunk_size,     \*   chunk_size,
    overlap,        \*   overlap,
    strategy,       \*   strategy
    cres,           \* what the call gave its caller
    \* ChunkingService.chunk_text, one iteration of its splitting loop at a time
    spc,            \* "idle", "loop" (inside _split_fixed/_sentence/_semantic), "done"
    stext,          \* the text of the call
    sstrat,         \* the strategy of the call
    s_size,         \* chunk_size as the loop is given it (after the cap)
    s_overlap,      \* overlap as the loop is given it (after the reduction)
    sunits,         \* tokens, sentences or sections: the units the loop walks over
    current_idx,    \* the loop's window start, counted from 0
    chunk_texts,    \* the chunk texts appended so far
    windows,        \* history: start, number of units and text of each window built
    sres,           \* what the call gave its caller
    \* the chunk store (app/crud.py)
    db_chunks,      \* the rows of document_chunks, in insertion order
    next_id,        \* the id the next inserted row gets
    store_op,       \* the operation that ran last, with its arguments
    store_res,      \* what it gave its caller
    ppc,            \* create_document_chunks: "idle", "embedding" (a generate_embedding
                    \* call is out), "commit" (the loop is over)
    chunk_pos,      \* the position in `chunks` of the chunk the loop is at
    created_chunks, \* the DocumentChunk objects queued for insertion
    failed_chunks,  \* chunk_index and error of the chunks that failed
    \* Conversation
    messages,       \* Conversation.messages
    context,        \* the last get_context_messages call: its limit and its result
    \* get_embedding_service
    instance,       \* _embedding_service_instance: 0 is None, else the instance number
    created,        \* history: EmbeddingService instances constructed so far
    gpc,            \* where caller t is in get_embedding_service
    gnew,           \* the instance caller t has constructed and not assigned yet
    gret            \* the instance caller t was given

counters == <<total_tokens, total_cost, succTokens>>

callVars == <<epc, etext, attempt, reqs, eres, ncalls, summary, btexts, bres, lastOp>>

embVars == <<counters, callVars>>

concVars == <<tpc, top, tattempt, ttokens, ttmp, tstatus>>

qryVars == <<qpc, question, top_k, min_similarity, candidates, pages, search_results,
             steps, outcomes, qres>>

chunkVars == <<cpc, ctext, chunk_size, overlap, strategy, cres>>

splitVars == <<spc, stext, sstrat, s_size, s_overlap, sunits, current_idx, chunk_texts,
               windows, sres>>

pipeVars == <<ppc, chunk_pos, created_chunks, failed_chunks>>

storeVars == <<db_chunks, next_id, store_op, store_res, pipeVars>>

convVars == <<messages, context>>

instVars == <<instance, created, gpc, gnew, gret>>

vars == <<embVars, concVars, qryVars, chunkVars, splitVars, storeVars, convVars, instVars>>

NoResult == [status |-> "none", exc |-> "none", cause |-> "none", why |-> "none",
             vec |-> NoVec, attempts |-> 0, validations |-> 0, before |-> 0]

NoBatchResult == [status |-> "none", exc |-> "none", vecs |-> <<>>, requested |-> FALSE,
                  before |-> 0]

NoSummary == [total_tokens |-> -1, total_cost |-> -1,
              avg_cost_per_token |-> [num |-> -1, den |-> 1]]

EmbInit ==
    /\ total_tokens = 0
    /\ total_cost = 0
    /\ epc = "idle"
    /\ etext = <<>>
    /\ attempt = 0
    /\ reqs = <<>>
    /\ eres = NoResult
    /\ succTokens = 0
    /\ ncalls = 0
    /\ summary = NoSummary
    /\ btexts = <<>>
    /\ bres = NoBatchResult
    /\ lastOp = "init"

\* ---------------------------------------------------- generate_embedding
\* if not text or len(text.strip()) < 10
TextRejected(text) == text = <<>> \/ Len(strip(text)) < MinTextLen

\* One run of the function body on the API outcome `out`: the exception it
\* raises ("none" when it returns), whether it made the request, what it added
\* to total_tokens, and the vector it returned.
generate_embedding_body(text, out) ==
    IF TextRejected(text)
    THEN [exc |-> "ValueError", why |-> "too_short", requested |-> FALSE,
          added |-> 0, vec |-> NoVec]
    ELSE IF out.kind # "ok"
    THEN [exc |-> out.kind, why |-> "api", requested |-> TRUE,
          added |-> 0, vec |-> NoVec]
    ELSE IF out.len # dimensions
    THEN [exc |-> "ValueError", why |-> "dimension", requested |-> TRUE,
          added |-> out.tokens, vec |-> NoVec]
    ELSE [exc |-> "none", why |-> "none", requested |-> TRUE,
          added |-> out.tokens, vec |-> [len |-> out.len, of |-> text]]

\* @retry without a retry= argument: tenacity retries on every Exception.
ShouldRetry(exc) == TRUE

\* A stop rule that allows one attempt more.
ShouldStop_OneMore(n) == n >= stop_after_attempt + 1

\* stop=stop_after_attempt(3)
ShouldStop(n) == n >= stop_after_attempt

\* @retry without reraise=True: when the attempts run out the caller gets
\* tenacity.RetryError, which wraps the last exception.
Surfaced(exc, retried) == IF retried THEN "RetryError" ELSE exc

\* The caller enters generate_embedding: tenacity starts its first attempt.
CallGenerateEmbedding ==
    /\ epc = "idle"
    /\ ncalls < MaxCalls
    /\ \E text \in Texts :
        /\ etext' = text
        /\ epc' = "running"
        /\ attempt' = 1
        /\ reqs' = <<>>
        /\ eres' = [NoResult EXCEPT !.before = total_tokens]
        /\ ncalls' = ncalls + 1
    /\ lastOp' = "generate_embedding"
    /\ summary' = NoSummary
    /\ UNCHANGED <<total_tokens, total_cost, succTokens, btexts, bres, concVars, qryVars,
                   chunkVars,
                 splitVars, storeVars, convVars, instVars>>

\* One attempt of the retry loop: the body runs once, then tenacity returns
\* its value, starts the next attempt, or gives up.
Attempt ==
    /\ epc = "running"
    /\ \E out \in ApiOutcomes :
        LET r == generate_embedding_body(etext, out)
            made == IF r.requested THEN Append(reqs, out) ELSE reqs
            seen == [eres EXCEPT !.attempts = attempt, !.validations = @ + 1]
        IN  /\ total_tokens' = total_tokens + r.added
            /\ total_cost' = total_cost + cost(r.added)
            /\ reqs' = made
            /\ IF r.exc = "none"
               THEN /\ epc' = "done"
                    /\ eres' = [seen EXCEPT !.status = "ok", !.vec = r.vec]
                    /\ succTokens' = succTokens + out.tokens
                    /\ UNCHANGED attempt
               ELSE IF ~ShouldRetry(r.exc) \/ ShouldStop(attempt)
               THEN /\ epc' = "done"
                    /\ eres' = [seen EXCEPT !.status = "raised",
                                            !.exc = Surfaced(r.exc, ShouldRetry(r.exc)),
                                            !.cause = r.exc, !.why = r.why]
                    /\ UNCHANGED <<attempt, succTokens>>
               ELSE /\ epc' = "running"
                    /\ attempt' = attempt + 1
                    /\ eres' = seen
                    /\ UNCHANGED succTokens
    /\ UNCHANGED <<etext, ncalls, summary, btexts, bres, lastOp, concVars, qryVars, chunkVars,
                 splitVars, storeVars, convVars, instVars>>

\* The caller has the result of generate_embedding or of
\* generate_embeddings_batch; the locals of the call are gone and the service
\* is free for the next call.
CallReturns ==
    /\ epc = "done"
    /\ epc' = "idle"
    /\ etext' = <<>>
    /\ attempt' = 0
    /\ reqs' = <<>>
    /\ eres' = NoResult
    /\ btexts' = <<>>
    /\ bres' = NoBatchResult
    /\ UNCHANGED <<total_tokens, total_cost, succTokens, ncalls, summary, lastOp,
                   concVars, qryVars, chunkVars,
                 splitVars, storeVars, convVars, instVars>>

\* ---------------------------------------------- generate_embeddings_batch
Seqs(S, n) == UNION {[1..k -> S] : k \in 0..n}

BatchTexts == {MkText(0, 1, 0), MkText(0, MaxCore, 0)}

\* One embeddings.create request for a list: it raises, or answers with one
\* vector per input, in input order, and one prompt_tokens figure.
ApiBatchOutcomes(texts) ==
    {[kind |-> k, data |-> <<>>, tokens |-> 0] : k \in ApiErrors}
    \cup {[kind |-> "ok", data |-> [i \in 1..Len(texts) |-> [len |-> n, of |-> texts[i]]],
           tokens |-> t] : n \in ApiLens, t \in 1..MaxTokens}

\* batch_size or int(os.getenv("EMBEDDING_BATCH_SIZE", "100")); 0 stands for
\* a batch_size that is None (or 0): both are falsy.
effective_batch_size(batch_size) ==
    IF batch_size = 0 THEN EMBEDDING_BATCH_SIZE ELSE batch_size

\* A body that collects the vectors of the response back to front.
generate_embeddings_batch_body_Reversed(texts, batch_size, out) ==
    IF Len(texts) > effective_batch_size(batch_size)
    THEN [exc |-> "ValueError", requested |-> FALSE, added |-> 0, vecs |-> <<>>]
    ELSE IF texts = <<>>
    THEN [exc |-> "ValueError", requested |-> FALSE, added |-> 0, vecs |-> <<>>]
    ELSE IF out.kind # "ok"
    THEN [exc |-> out.kind, requested |-> TRUE, added |-> 0, vecs |-> <<>>]
    ELSE [exc |-> "none", requested |-> TRUE, added |-> out.tokens,
          vecs |-> [i \in 1..Len(out.data) |-> out.data[Len(out.data) + 1 - i]]]

\* embeddings = [item.embedding for item in response.data]: the vectors in
\* the order of the response.
generate_embeddings_batch_body(texts, batch_size, out) ==
    IF Len(texts) > effective_batch_size(batch_size)
    THEN [exc |-> "ValueError", requested |-> FALSE, added |-> 0, vecs |-> <<>>]
    ELSE IF texts = <<>>
    THEN [exc |-> "ValueError", requested |-> FALSE, added |-> 0, vecs |-> <<>>]
    ELSE IF out.kind # "ok"
    THEN [exc |-> out.kind, requested |-> TRUE, added |-> 0, vecs |-> <<>>]
    ELSE [exc |-> "none", requested |-> TRUE, added |-> out.tokens, vecs |-> out.data]

GenerateEmbeddingsBatch ==
    /\ epc = "idle"
    /\ ncalls < MaxCalls
    /\ \E texts \in Seqs(BatchTexts, MaxBatchLen), batch_size \in 0..MaxBatchLen :
        \E out \in ApiBatchOutcomes(texts) :
            LET r == generate_embeddings_batch_body(texts, batch_size, out)
            IN  /\ btexts' = texts
                /\ total_tokens' = total_tokens + r.added
                /\ total_cost' = total_cost + cost(r.added)
                /\ bres' = [status |-> IF r.exc = "none" THEN "ok" ELSE "raised",
                            exc |-> r.exc, vecs |-> r.vecs, requested |-> r.requested,
                            before |-> total_tokens]
                /\ succTokens' = IF r.exc = "none" THEN succTokens + out.tokens
                                 ELSE succTokens
    /\ ncalls' = ncalls + 1
    /\ lastOp' = "generate_embeddings_batch"
    /\ epc' = "done"
    /\ summary' = NoSummary
    /\ UNCHANGED <<etext, attempt, reqs, eres, concVars, qryVars, chunkVars,
                 splitVars, storeVars, convVars, instVars>>

\* ------------------------------------------ get_cost_summary, reset_metrics
\* round(total_cost, 6): to the nearest 1e-6 USD, which is 100 units.
round6(c) == {r * 100 : r \in RoundDiv(c, 100)}

\* self.total_cost / self.total_tokens: the quotient a / b of two counters, b
\* positive, kept as a fraction in lowest terms (of 1e-8 USD per token).
Ratio(a, b) ==
    LET RECURSIVE GCD(_, _)
        GCD(x, y) == IF y = 0 THEN x ELSE GCD(y, x % y)
        g == GCD(a, b)
    IN  [num |-> a \div g, den |-> b \div g]

\* The dicts get_cost_summary can return: one, or two when total_cost lies
\* halfway between two multiples of 1e-6 USD.
get_cost_summary ==
    {[total_tokens |-> total_tokens,
      total_cost |-> c,
      avg_cost_per_token |-> IF total_tokens > 0 THEN Ratio(total_cost, total_tokens)
                             ELSE Ratio(0, 1)] :
        c \in round6(total_cost)}

GetCostSummary ==
    /\ epc = "idle"
    /\ summary' \in get_cost_summary
    /\ lastOp' = "get_cost_summary"
    /\ UNCHANGED <<total_tokens, total_cost, epc, etext, attempt, reqs, eres, succTokens,
                   ncalls, btexts, bres, concVars, qryVars, chunkVars,
                 splitVars, storeVars, convVars, instVars>>

reset_metrics ==
    /\ epc = "idle"
    /\ total_tokens' = 0
    /\ total_cost' = 0
    /\ succTokens' = 0
    /\ lastOp' = "reset_metrics"
    /\ summary' = NoSummary
    /\ UNCHANGED <<epc, etext, attempt, reqs, eres, ncalls, btexts, bres, concVars, qryVars,
                   chunkVars,
                 splitVars, storeVars, convVars, instVars>>

EmbNext ==
    \/ CallGenerateEmbedding
    \/ Attempt
    \/ CallReturns
    \/ GenerateEmbeddingsBatch
    \/ GetCostSummary
    \/ reset_metrics

\* ------------------------------------------- concurrent callers, one instance
Threads == 1..NThreads

ConcInit ==
    /\ tpc = [t \in Threads |-> "idle"]
    /\ top = [t \in Threads |-> "none"]
    /\ tattempt = [t \in Threads |-> 0]
    /\ ttokens = [t \in Threads |-> 0]
    /\ ttmp = [t \in Threads |-> 0]
    /\ tstatus = [t \in Threads |-> "none"]

\* The text every concurrent caller embeds: one the validation accepts.
ConcText == MkText(0, MinTextLen, 0)

\* What the API does for the concurrent callers: it raises, or answers with
\* vectors of the right length.
ConcOutcomes == {out \in ApiOutcomes : out.kind = "ok" => out.len = dimensions}

\* Caller t enters generate_embedding or generate_embeddings_batch.
T_Call(t) ==
    /\ tpc[t] = "idle"
    /\ \E m \in {"generate_embedding", "generate_embeddings_batch"} :
        top' = [top EXCEPT ![t] = m]
    /\ tattempt' = [tattempt EXCEPT ![t] = 1]
    /\ tpc' = [tpc EXCEPT ![t] = "request"]
    /\ UNCHANGED <<counters, ttokens, ttmp, tstatus, callVars, qryVars, chunkVars,
                 splitVars, storeVars, convVars, instVars>>

\* The embeddings.create request of caller t ends.  An exception leaves the
\* body; generate_embedding is then retried or given up by tenacity, the
\* batch method raises.
T_Request(t) ==
    /\ tpc[t] = "request"
    /\ \E out \in ConcOutcomes :
        LET r == IF top[t] = "generate_embedding"
                 THEN generate_embedding_body(ConcText, out)
                 ELSE generate_embeddings_batch_body(
                          <<ConcText>>, 0,
                          [kind |-> out.kind, tokens |-> out.tokens,
                           data |-> <<[len |-> out.len, of |-> ConcText]>>])
        IN  IF r.exc = "none"
            THEN /\ ttokens' = [ttokens EXCEPT ![t] = out.tokens]
                 /\ tpc' = [tpc EXCEPT ![t] = "load_tokens"]
                 /\ UNCHANGED <<tattempt, tstatus>>
            ELSE IF top[t] = "generate_embedding" /\ ShouldRetry(r.exc)
                    /\ ~ShouldStop(tattempt[t])
            THEN /\ tattempt' = [tattempt EXCEPT ![t] = @ + 1]
                 /\ UNCHANGED <<tpc, ttokens, tstatus>>
            ELSE /\ tpc' = [tpc EXCEPT ![t] = "done"]
                 /\ tstatus' = [tstatus EXCEPT ![t] = "raised"]
                 /\ UNCHANGED <<tattempt, ttokens>>
    /\ UNCHANGED <<counters, top, ttmp, callVars, qryVars, chunkVars,
                 splitVars, storeVars, convVars, instVars>>

\* self.total_tokens += tokens, first half: the attribute is read.
T_LoadTokens(t) ==
    /\ tpc[t] = "load_tokens"
    /\ ttmp' = [ttmp EXCEPT ![t] = total_tokens]
    /\ tpc' = [tpc EXCEPT ![t] = "store_tokens"]
    /\ UNCHANGED <<counters, top, tattempt, ttokens, tstatus, callVars, qryVars, chunkVars,
                 splitVars, storeVars, convVars, instVars>>

\* self.total_tokens += tokens, second half: the sum is written back.
T_StoreTokens(t) ==
    /\ tpc[t] = "store_tokens"
    /\ total_tokens' = ttmp[t] + ttokens[t]
    /\ tpc' = [tpc EXCEPT ![t] = "load_cost"]
    /\ UNCHANGED <<total_cost, succTokens, top, tattempt, ttokens, ttmp, tstatus,
                   callVars, qryVars, chunkVars,
                 splitVars, storeVars, convVars, instVars>>

\* self.total_cost += cost, first half.
T_LoadCost(t) ==
    /\ tpc[t] = "load_cost"
    /\ ttmp' = [ttmp EXCEPT ![t] = total_cost]
    /\ tpc' = [tpc EXCEPT ![t] = "store_cost"]
    /\ UNCHANGED <<counters, top, tattempt, ttokens, tstatus, callVars, qryVars, chunkVars,
                 splitVars, storeVars, convVars, instVars>>

\* self.total_cost += cost, second half, and the rest of the body: the vector
\* has the right length, so the call returns it.
T_StoreCost(t) ==
    /\ tpc[t] = "store_cost"
    /\ total_cost' = ttmp[t] + cost(ttokens[t])
    /\ tpc' = [tpc EXCEPT ![t] = "done"]
    /\ tstatus' = [tstatus EXCEPT ![t] = "ok"]
    /\ succTokens' = succTokens + ttokens[t]
    /\ UNCHANGED <<total_tokens, top, tattempt, ttokens, ttmp, callVars, qryVars, chunkVars,
                 splitVars, storeVars, convVars, instVars>>

\* The caller that started the threads has joined them all and reads the
\* summary of the shared instance.
JoinedGetCostSummary ==
    /\ \A t \in Threads : tpc[t] = "done"
    /\ GetCostSummary

ConcNext ==
    \/ \E t \in Threads :
        \/ T_Call(t)
        \/ T_Request(t)
        \/ T_LoadTokens(t)
        \/ T_StoreTokens(t)
        \/ T_LoadCost(t)
        \/ T_StoreCost(t)
    \/ JoinedGetCostSummary

\* ------------------------------------------------------- RAGService.query
REFUSAL == "I don't have information about that topic in the uploaded documents. Please upload additional documents or try a different question."

FALLBACK == "Unable to generate answer from retrieved documents."

\* Similarity scores the chunk store may report, in thousandths; 801 and 800
\* have a mean that lies halfway between two thousandths.
Scores == {500, 700, 800, 801, 850, 900, 950}

MinSimilarities == {700, 900}

TopKs == {1, MaxChunks}

\* The chunks of one organization as the store ranks them: best first.
Stores ==
    {c \in Seqs(Scores, MaxChunks) : \A i \in 1..(Len(c) - 1) : c[i] >= c[i + 1]}

\* metadata.get("page") of a chunk whose metadata has no "page" entry.
NoPage == -1

\* The "page" entries tried: one that SourceCitation rejects and one that it
\* accepts.
Pages == {0, 1}

\* The "page" entries of n chunks: at most one of the chunks has one.
PageLists(n) ==
    {[i \in 1..n |-> NoPage]}
    \cup {[i \in 1..n |-> IF i = j THEN p ELSE NoPage] : j \in 1..n, p \in Pages}

\* The chunk stores tried: every ranking of scores with no page metadata, and
\* equally ranked chunks with page metadata.
StoreChoices ==
    {[scores |-> c, pages |-> [i \in 1..Len(c) |-> NoPage]] : c \in Stores}
    \cup UNION {{[scores |-> Rep(900, n), pages |-> pl] : pl \in PageLists(n)} :
                n \in 1..MaxChunks}

\* The chunks of a store: score and page metadata, best first.
Chunks(scores, pgs) == [i \in 1..Len(scores) |-> [score |-> scores[i], page |-> pgs[i]]]

\* The dict search_similar_chunks returns for the chunk c ranked i.
Result(i, c) ==
    [chunk_id |-> i, similarity_score |-> c.score, metadata |-> [page |-> c.page]]

RECURSIVE Filter(_, _)
Filter(rs, min) ==
    IF rs = <<>> THEN <<>>
    ELSE IF Head(rs).similarity_score >= min
         THEN <<Head(rs)>> \o Filter(Tail(rs), min)
         ELSE Filter(Tail(rs), min)

Min(a, b) == IF a <= b THEN a ELSE b

Max(a, b) == IF a >= b THEN a ELSE b

\* The lists the store's search can hand back (section 6): up to top_k
\* candidates, best first. The search is handed min_similarity, and section 6
\* gives the store no threshold of its own: a store that leaves out the
\* candidates below it and a store that hands back all of them are both
\* possible.
search_similar_chunks(cands, k, min) ==
    LET nearest == [i \in 1..Min(k, Len(cands)) |-> Result(i, cands[i])]
    IN  {nearest, Filter(nearest, min)}

\* What the completion call can do: raise, or answer with some content.
ChatOutcomes ==
    {[kind |-> "error", content |-> <<>>]}
    \cup {[kind |-> "ok", content |-> c] : c \in {MkText(1, 3, 1), MkText(2, 0, 0), <<>>}}

NoResponse == [status |-> "none", stage |-> "none", answer |-> "none", sources |-> <<>>,
               confidence |-> -1, chunks_used |-> -1, scores |-> <<>>,
               exc |-> "none", msg |-> "none", cause |-> "none"]

NoOutcomes == [embed |-> "none", search |-> "none", chat |-> "none", reply |-> <<>>]

QryInit ==
    /\ qpc = "idle"
    /\ question = <<>>
    /\ top_k = 0
    /\ min_similarity = 0
    /\ candidates = <<>>
    /\ pages = <<>>
    /\ search_results = <<>>
    /\ steps = <<>>
    /\ outcomes = NoOutcomes
    /\ qres = NoResponse

\* if not question or not question.strip()
QuestionRejected(q) == q = <<>> \/ strip(q) = <<>>

\* A handler that logs the embedding failure and carries on.
EmbeddingRaised_Swallowed(res) == FALSE

\* except Exception around generate_embedding: the call raised
EmbeddingRaised(res) == res.status = "raised"

\* The call of search_similar_chunks as query makes it: the lists it can get.
SearchCall(cands, k, min) == search_similar_chunks(cands, k, min)

\* A check for an empty result list that never finds one.
NoResults_Never(results) == FALSE

\* if not search_results
NoResults(results) == results = <<>>

\* A handler that logs the completion failure and carries on.
ChatRaised_Swallowed(out) == FALSE

\* except Exception around the completion call: the call raised
ChatRaised(out) == out.kind # "ok"

\* SourceCitation(...) validates: 0 <= similarity_score <= 1, and
\* page_number is None or at least 1.
CitationValid(r) ==
    /\ 0 <= r.similarity_score /\ r.similarity_score <= 1000
    /\ r.metadata.page = NoPage \/ r.metadata.page >= 1

\* The SourceCitation of a result; round(float(similarity), 3) leaves a score
\* in thousandths as it is.
Citation(r) ==
    [chunk_id |-> r.chunk_id, similarity_score |-> r.similarity_score,
     page_number |-> r.metadata.page]

\* The loop over search_results: a citation that fails validation is logged
\* and left out.
RECURSIVE Citations(_)
Citations(rs) ==
    IF rs = <<>> THEN <<>>
    ELSE IF CitationValid(Head(rs))
         THEN <<Citation(Head(rs))>> \o Citations(Tail(rs))
         ELSE Citations(Tail(rs))

RECURSIVE Sum(_)
Sum(xs) == IF xs = <<>> THEN 0 ELSE Head(xs) + Sum(Tail(xs))

\* A confidence that is the score of the best chunk.
Confidence_Best(scores) ==
    IF scores = <<>> THEN {0} ELSE {Min(1000, Max(0, scores[1]))}

\* Step 5: the mean of the similarity scores, clamped to [0, 1], and rounded
\* to 3 decimals, which is to the thousandth: the values round(confidence, 3)
\* can have (two when the mean lies halfway between two thousandths).
Confidence(scores) ==
    IF scores = <<>> THEN {0}
    ELSE {Min(1000, Max(0, c)) : c \in RoundDiv(Sum(scores), Len(scores))}

\* An answer that is the stripped content, whatever it is.
Answer_NoFallback(content) == strip(content)

\* answer = response.get("content", "").strip(), and the fixed fallback when
\* nothing is left.
Answer(content) ==
    LET answer == strip(content)
    IN  IF answer = <<>> THEN FALLBACK ELSE answer

\* The text the ValueError of a stage starts with.
Message(stage) ==
    CASE stage = "validate" -> "Question cannot be empty"
      [] stage = "embedding" -> "Failed to embed question: "
      [] stage = "search" -> "Vector search failed: "
      [] stage = "completion" -> "Failed to generate answer: "

\* raise ValueError(...): the type of the exception query raises at a stage
\* that failed with an exception of kind `cause`.
RaisedType(stage, cause) == "ValueError"

\* What the caller of query gets when a stage fails; stage and cause are
\* history, the caller sees exc and msg.
Raised(stage, cause) ==
    [NoResponse EXCEPT !.status = "raised", !.stage = stage,
                       !.exc = RaisedType(stage, cause), !.msg = Message(stage),
                       !.cause = cause]

\* query up to its first call out: the question is validated and stripped,
\* and generate_embedding is entered.
Query ==
    /\ qpc = "idle"
    /\ epc = "idle"
    /\ ncalls < MaxQueries
    /\ \E q \in Texts, k \in TopKs, ms \in MinSimilarities :
        /\ top_k' = k
        /\ min_similarity' = ms
        /\ candidates' = <<>>
        /\ pages' = <<>>
        /\ search_results' = <<>>
        /\ outcomes' = NoOutcomes
        /\ IF QuestionRejected(q)
           THEN /\ question' = q
                /\ steps' = <<"validate">>
                /\ qpc' = "done"
                /\ qres' = Raised("validate", "ValueError")
                /\ UNCHANGED callVars
           ELSE /\ question' = strip(q)
                /\ steps' = <<"validate", "embed">>
                /\ qpc' = "embedding"
                /\ qres' = NoResponse
                /\ etext' = strip(q)
                /\ epc' = "running"
                /\ attempt' = 1
                /\ reqs' = <<>>
                /\ eres' = [NoResult EXCEPT !.before = total_tokens]
                /\ ncalls' = ncalls + 1
                /\ lastOp' = "generate_embedding"
                /\ UNCHANGED <<summary, btexts, bres>>
    /\ UNCHANGED <<counters, concVars, chunkVars,
                 splitVars, storeVars, convVars, instVars>>

\* generate_embedding has ended: query raises, or calls search_similar_chunks.
\* The locals of the embedding call are gone.
Q_Embedded ==
    /\ qpc = "embedding"
    /\ epc = "done"
    /\ epc' = "idle"
    /\ etext' = <<>>
    /\ attempt' = 0
    /\ reqs' = <<>>
    /\ eres' = NoResult
    /\ IF EmbeddingRaised(eres)
       THEN /\ qpc' = "done"
            /\ qres' = Raised("embedding", eres.cause)
            /\ outcomes' = [outcomes EXCEPT !.embed = "error"]
            /\ UNCHANGED steps
       ELSE /\ qpc' = "search"
            /\ qres' = NoResponse
            /\ outcomes' = [outcomes EXCEPT
                              !.embed = IF eres.status = "ok" THEN "ok" ELSE "error"]
            /\ steps' = Append(steps, "search")
    /\ UNCHANGED <<counters, ncalls, summary, btexts, bres, lastOp,
                   question, top_k, min_similarity, candidates, pages, search_results,
                   concVars, chunkVars,
                 splitVars, storeVars, convVars, instVars>>

\* search_similar_chunks has ended: query raises, returns the refusal, or
\* builds the prompt and calls the completion API.
Q_Search ==
    /\ qpc = "search"
    /\ \E store \in StoreChoices, storeRaises \in BOOLEAN :
        \E results \in SearchCall(Chunks(store.scores, store.pages), top_k,
                                  min_similarity) :
            /\ candidates' = store.scores
            /\ pages' = store.pages
            /\ outcomes' = [outcomes EXCEPT
                              !.search = IF storeRaises THEN "error" ELSE "ok"]
            /\ IF storeRaises
               THEN /\ search_results' = <<>>
                    /\ qpc' = "done"
                    /\ qres' = Raised("search", "DatabaseError")
                    /\ UNCHANGED steps
               ELSE IF NoResults(results)
               THEN /\ search_results' = results
                    /\ qpc' = "done"
                    /\ qres' = [NoResponse EXCEPT !.status = "ok", !.answer = REFUSAL,
                                   !.confidence = 0, !.chunks_used = 0]
                    /\ UNCHANGED steps
               ELSE /\ steps' = Append(steps, "chat")
                    /\ search_results' = results
                    /\ qpc' = "chat"
                    /\ qres' = NoResponse
    /\ UNCHANGED <<embVars, question, top_k, min_similarity, concVars, chunkVars,
                 splitVars, storeVars, convVars, instVars>>

\* The completion call has ended: query raises, or returns the RAGResponse.
Q_Chat ==
    /\ qpc = "chat"
    /\ \E out \in ChatOutcomes :
        LET scores == [i \in 1..Len(search_results) |-> search_results[i].similarity_score]
        IN  /\ outcomes' = [outcomes EXCEPT !.chat = out.kind, !.reply = out.content]
            /\ IF ChatRaised(out)
               THEN qres' = Raised("completion", "APIError")
               ELSE \E confidence \in Confidence(scores) :
                    qres' = [NoResponse EXCEPT
                               !.status = "ok",
                               !.answer = Answer(out.content),
                               !.sources = Citations(search_results),
                               !.confidence = confidence,
                               !.chunks_used = Len(search_results),
                               !.scores = scores]
    /\ qpc' = "done"
    /\ UNCHANGED <<embVars, concVars, question, top_k, min_similarity, candidates, pages,
                   search_results, steps, chunkVars,
                 splitVars, storeVars, convVars, instVars>>

\* The caller has the answer or the error; the locals of the call are gone
\* and the service takes the next query.
Q_Returns ==
    /\ qpc = "done"
    /\ qpc' = "idle"
    /\ question' = <<>>
    /\ top_k' = 0
    /\ min_similarity' = 0
    /\ candidates' = <<>>
    /\ pages' = <<>>
    /\ search_results' = <<>>
    /\ steps' = <<>>
    /\ outcomes' = NoOutcomes
    /\ qres' = NoResponse
    /\ UNCHANGED <<embVars, concVars, chunkVars,
                 splitVars, storeVars, convVars, instVars>>

QryNext ==
    \/ Query
    \/ Attempt
    \/ Q_Embedded
    \/ Q_Search
    \/ Q_Chat
    \/ Q_Returns

\* ------------------------------------------------- ChunkingService.chunk_text
\* MAX_CHUNK_SIZE
MAX_CHUNK_SIZE == 8191

\* The characters of the texts tried: a word character, a blank, a sentence
\* end, a newline and a heading mark.
ChunkChars == {"x", " ", ".", "\n", "#"}

ChunkTexts == Seqs(ChunkChars, MaxTextLen)

\* chunk_size: invalid ones, small ones, 100 and 101 (whose reduced overlaps
\* are 0 and 1), and one above MAX_CHUNK_SIZE.
ChunkSizes == ((-1)..MaxChunkSize) \cup {100, 101, MAX_CHUNK_SIZE + 1}

\* overlap: an invalid one, small ones, 150, and MAX_CHUNK_SIZE.
Overlaps == ((-1)..MaxChunkSize) \cup {150, MAX_CHUNK_SIZE}

Strategies == {"fixed", "sentence", "semantic"}

\* [.!?]
IsSentenceEnd(c) == c \in {".", "!", "?"}

\* [.!?,;:]
IsPunctuation(c) == c \in {".", "!", "?", ",", ";", ":"}

\* ''.join(parts)
RECURSIVE Join(_)
Join(parts) == IF parts = <<>> THEN <<>> ELSE Head(parts) \o Join(Tail(parts))

\* sep.join(parts)
RECURSIVE JoinWith(_, _)
JoinWith(parts, sep) ==
    IF parts = <<>> THEN <<>>
    ELSE IF Len(parts) = 1 THEN parts[1]
    ELSE parts[1] \o sep \o JoinWith(Tail(parts), sep)

\* The last index of the run of characters that starts at i and whose members
\* all satisfy (blank = TRUE) or all fail (blank = FALSE) IsSpace.
RECURSIVE RunEnd(_, _, _)
RunEnd(s, i, blank) ==
    IF i < Len(s) /\ IsSpace(s[i + 1]) = blank THEN RunEnd(s, i + 1, blank) ELSE i

\* re.findall(r'\S+|\s+', text) from index i on: the maximal runs of
\* non-blank and of blank characters, in order.
RECURSIVE TokensFrom(_, _)
TokensFrom(s, i) ==
    IF i > Len(s) THEN <<>>
    ELSE LET j == RunEnd(s, i, IsSpace(s[i]))
         IN  <<SubSeq(s, i, j)>> \o TokensFrom(s, j + 1)

tokens(text) == TokensFrom(text, 1)

\* _count_tokens: re.split(r'\s+|(?<=[.!?,;:])', text) cuts the text at every
\* run of blanks and after every punctuation character; the pieces that are
\* not empty are counted.  A piece that is not empty starts at each non-blank
\* character that stands first or after a blank or a punctuation character.
count_tokens(text) ==
    Max(1, Cardinality({i \in 1..Len(text) :
                          /\ ~IsSpace(text[i])
                          /\ i = 1 \/ IsSpace(text[i - 1]) \/ IsPunctuation(text[i - 1])}))

\* An advance that is not floored at 1.
AdvanceBy_NoFloor(span, ovl) == span - ovl

\* An advance that adds the overlap to the span of the window.
AdvanceBy_PlusOverlap(span, ovl) == Max(1, span + ovl)

\* advance_by = max(1, chunk_size - overlap) in _split_fixed, and
\* max(1, len(chunk_sentences) - overlap), max(1, len(chunk_sections) - overlap)
\* in the other two.
AdvanceBy(span, ovl) == Max(1, span - ovl)

\* The while loop of _split_fixed from current_idx = idx - 1 on.
RECURSIVE FixedFrom(_, _, _, _)
FixedFrom(toks, idx, size, ovl) ==
    IF idx > Len(toks) THEN <<>>
    ELSE LET chunk_end == Min(idx + size - 1, Len(toks))
             chunk == strip(Join(SubSeq(toks, idx, chunk_end)))
             advance_by == AdvanceBy(size, ovl)
             rest == FixedFrom(toks, idx + advance_by, size, ovl)
         IN  IF chunk # <<>> THEN <<chunk>> \o rest ELSE rest

split_fixed(text, size, ovl) == FixedFrom(tokens(text), 1, size, ovl)

\* [s.strip() for s in pieces if s.strip()]
RECURSIVE Stripped(_)
Stripped(pieces) ==
    IF pieces = <<>> THEN <<>>
    ELSE IF strip(Head(pieces)) # <<>>
         THEN <<strip(Head(pieces))>> \o Stripped(Tail(pieces))
         ELSE Stripped(Tail(pieces))

\* re.split(r'(?<=[.!?])\s+', text) from index i on, cur being the piece in
\* progress: a run of blanks that follows a sentence end is cut out.
RECURSIVE SentencesFrom(_, _, _)
SentencesFrom(s, i, cur) ==
    IF i > Len(s) THEN <<cur>>
    ELSE IF IsSpace(s[i]) /\ i > 1 /\ IsSentenceEnd(s[i - 1])
         THEN <<cur>> \o SentencesFrom(s, RunEnd(s, i, TRUE) + 1, <<>>)
         ELSE SentencesFrom(s, i + 1, Append(cur, s[i]))

\* The last index of the run of newlines that starts at i.
RECURSIVE NewlinesEnd(_, _)
NewlinesEnd(s, i) ==
    IF i < Len(s) /\ s[i + 1] = "\n" THEN NewlinesEnd(s, i + 1) ELSE i

\* re.split(r'\n\n+|(?=^#)', text, flags=re.MULTILINE) from index i on: a run
\* of two or more newlines is cut out, and the text is cut before a '#' that
\* stands first on a line.
RECURSIVE SectionsFrom(_, _, _)
SectionsFrom(s, i, cur) ==
    IF i > Len(s) THEN <<cur>>
    ELSE IF s[i] = "\n" /\ i < Len(s) /\ s[i + 1] = "\n"
         THEN <<cur>> \o SectionsFrom(s, NewlinesEnd(s, i) + 1, <<>>)
         ELSE IF s[i] = "#" /\ (i = 1 \/ s[i - 1] = "\n")
              THEN <<cur>> \o SectionsFrom(s, i + 1, <<"#">>)
              ELSE SectionsFrom(s, i + 1, Append(cur, s[i]))

\* A limit that is looked at only after the unit has been added.
LimitReached_AfterAdding(token_count, unit_tokens, size, n) == token_count > size /\ n > 0

\* if token_count + sent_tokens > chunk_size and chunk_sentences: break
\* (n is len(chunk_sentences))
LimitReached(token_count, unit_tokens, size, n) ==
    token_count + unit_tokens > size /\ n > 0

\* The inner while loop of _split_sentence and _split_semantic: the number of
\* units taken into the chunk that starts at unit idx, n of them being taken
\* already with count tokens.
RECURSIVE Taken(_, _, _, _, _)
Taken(units, idx, size, count, n) ==
    IF idx > Len(units) THEN n
    ELSE LET unit_tokens == count_tokens(units[idx])
         IN  IF LimitReached(count, unit_tokens, size, n) THEN n
             ELSE Taken(units, idx + 1, size, count + unit_tokens, n + 1)

\* The outer while loop of _split_sentence and _split_semantic from
\* current_idx = idx - 1 on; sep joins the units of a chunk.
RECURSIVE GroupFrom(_, _, _, _, _)
GroupFrom(units, idx, size, ovl, sep) ==
    IF idx > Len(units) THEN <<>>
    ELSE LET n == Taken(units, idx, size, 0, 0)
             chunk == strip(JoinWith(SubSeq(units, idx, idx + n - 1), sep))
             advance_by == AdvanceBy(n, ovl)
             rest == GroupFrom(units, idx + advance_by, size, ovl, sep)
         IN  IF chunk # <<>> THEN <<chunk>> \o rest ELSE rest

split_sentence(text, size, ovl) ==
    GroupFrom(Stripped(SentencesFrom(text, 1, <<>>)), 1, size, ovl, <<" ">>)

split_semantic(text, size, ovl) ==
    GroupFrom(Stripped(SectionsFrom(text, 1, <<>>)), 1, size, ovl, <<"\n", "\n">>)

\* A check that lets whitespace-only text through.
TextEmpty_OnlyEmptyString(text) == text = <<>>

\* if not text or not text.strip()
TextEmpty(text) == text = <<>> \/ strip(text) = <<>>

\* An overlap that is reduced to just below chunk_size.
ReducedOverlap_SizeLessOne(size, ovl) == IF size <= ovl THEN size - 1 ELSE ovl

\* if chunk_size <= overlap: overlap = max(0, chunk_size - 100)
ReducedOverlap(size, ovl) == IF size <= ovl THEN Max(0, size - 100) ELSE ovl

\* if chunk_size > self.MAX_CHUNK_SIZE: chunk_size = self.MAX_CHUNK_SIZE
CappedSize(size) == IF size > MAX_CHUNK_SIZE THEN MAX_CHUNK_SIZE ELSE size

\* The chunk dicts built from the chunk texts; chunk_index counts from 0.  The
\* caller's metadata is copied into every chunk as it is and is left out.
ChunkDicts(texts, strat, size, ovl) ==
    [i \in 1..Len(texts) |->
        [chunk_index |-> i - 1,
         chunk_text |-> texts[i],
         token_count |-> count_tokens(texts[i]),
         metadata |-> [strategy |-> strat, chunk_size_config |-> size,
                       overlap_config |-> ovl]]]

\* A validation that is skipped altogether.
ArgumentsRejected_Never(size, ovl) == FALSE

\* if chunk_size <= 0: raise ValueError; if overlap < 0: raise ValueError
ArgumentsRejected(size, ovl) == size <= 0 \/ ovl < 0

\* chunk_text: the exception it raises ("none" when it returns) and the list
\* it returns.
chunk_text(text, size, ovl, strat) ==
    IF TextEmpty(text) THEN [exc |-> "none", chunks |-> <<>>]
    ELSE IF ArgumentsRejected(size, ovl) THEN [exc |-> "ValueError", chunks |-> <<>>]
    ELSE LET o == ReducedOverlap(size, ovl)
             c == CappedSize(size)
         IN  IF strat \notin {"fixed", "sentence", "semantic"}
             THEN [exc |-> "ValueError", chunks |-> <<>>]
             ELSE [exc |-> "none",
                   chunks |-> ChunkDicts(
                       CASE strat = "fixed" -> split_fixed(text, c, o)
                         [] strat = "sentence" -> split_sentence(text, c, o)
                         [] strat = "semantic" -> split_semantic(text, c, o),
                       strat, c, o)]

NoChunks == [exc |-> "none", chunks |-> <<>>]

ChunkInit ==
    /\ cpc = "idle"
    /\ ctext = <<>>
    /\ chunk_size = 0
    /\ overlap = 0
    /\ strategy = "none"
    /\ cres = NoChunks

\* One call of chunk_text, from its arguments to its result.
ChunkText ==
    /\ cpc = "idle"
    /\ \E text \in ChunkTexts, size \in ChunkSizes, ovl \in Overlaps, strat \in Strategies :
        /\ ctext' = text
        /\ chunk_size' = size
        /\ overlap' = ovl
        /\ strategy' = strat
        /\ cres' = chunk_text(text, size, ovl, strat)
    /\ cpc' = "done"
    /\ UNCHANGED <<embVars, concVars, qryVars,
                 splitVars, storeVars, convVars, instVars>>

\* The caller has the chunk list or the error.
ChunkReturns ==
    /\ cpc = "done"
    /\ cpc' = "idle"
    /\ ctext' = <<>>
    /\ chunk_size' = 0
    /\ overlap' = 0
    /\ strategy' = "none"
    /\ cres' = NoChunks
    /\ UNCHANGED <<embVars, concVars, qryVars,
                 splitVars, storeVars, convVars, instVars>>

ChunkNext ==
    \/ ChunkText
    \/ ChunkReturns

\* ------------------------------ chunk_text, its splitting loop step by step
\* The sentences the texts are put together from: one of one token and one of
\* three tokens.
Pieces == {<<"x", ".">>, <<"x", " ", "x", " ", "x", ".">>}

\* What stands between two of them: a blank, or a blank line.
Separators == {<<" ">>, <<"\n", "\n">>}

\* The texts of k sentences.
RECURSIVE Structured(_)
Structured(k) ==
    IF k = 1 THEN Pieces
    ELSE {t \o sep \o p : t \in Structured(k - 1), sep \in Separators, p \in Pieces}

\* The texts tried: one that is blank, and those of 1 to MaxUnits sentences.
SplitTexts == {<<" ">>} \cup UNION {Structured(k) : k \in 1..MaxUnits}

\* chunk_size: an invalid one, small ones, and one above MAX_CHUNK_SIZE.
SplitSizes == (0..MaxChunkSize) \cup {MAX_CHUNK_SIZE + 1}

\* overlap: an invalid one, small ones, and MAX_CHUNK_SIZE.
SplitOverlaps == ((-1)..MaxChunkSize) \cup {MAX_CHUNK_SIZE}

\* tokens = re.findall(...); sentences = [s.strip() for s in re.split(...) if
\* s.strip()]; sections likewise: the list the loop of the strategy walks over.
Units(strat, text) ==
    CASE strat = "fixed" -> tokens(text)
      [] strat = "sentence" -> Stripped(SentencesFrom(text, 1, <<>>))
      [] strat = "semantic" -> Stripped(SectionsFrom(text, 1, <<>>))

\* What joins the units of one chunk: ''.join, ' '.join, '\n\n'.join.
Separator(strat) ==
    CASE strat = "fixed" -> <<>>
      [] strat = "sentence" -> <<" ">>
      [] strat = "semantic" -> <<"\n", "\n">>

\* The number of units in the window that starts at current_idx = idx:
\* len(tokens[current_idx:chunk_end]) in _split_fixed, len(chunk_sentences) and
\* len(chunk_sections) after the inner loop in the other two.
WindowLen(strat, us, idx, size) ==
    IF strat = "fixed" THEN Min(idx + size, Len(us)) - idx
    ELSE Taken(us, idx + 1, size, 0, 0)

\* The span the advance is computed from: chunk_size in _split_fixed, the
\* number of units in the chunk in the other two.
AdvanceSpan(strat, size, n) == IF strat = "fixed" THEN size ELSE n

NoWindow == [exc |-> "none", chunks |-> <<>>]

SplitInit ==
    /\ spc = "idle"
    /\ stext = <<>>
    /\ sstrat = "none"
    /\ s_size = 0
    /\ s_overlap = 0
    /\ sunits = <<>>
    /\ current_idx = 0
    /\ chunk_texts = <<>>
    /\ windows = <<>>
    /\ sres = NoWindow

\* chunk_text is called: the checks, the reduction of overlap, the cap of
\* chunk_size, and the start of the loop of the strategy.
SplitEnter ==
    /\ spc = "idle"
    /\ \E text \in SplitTexts, size \in SplitSizes, ovl \in SplitOverlaps, strat \in Strategies :
        /\ stext' = text
        /\ sstrat' = strat
        /\ IF TextEmpty(text)
           THEN /\ spc' = "done"
                /\ sres' = [exc |-> "none", chunks |-> <<>>]
                /\ UNCHANGED <<s_size, s_overlap, sunits>>
           ELSE IF ArgumentsRejected(size, ovl)
                THEN /\ spc' = "done"
                     /\ sres' = [exc |-> "ValueError", chunks |-> <<>>]
                     /\ UNCHANGED <<s_size, s_overlap, sunits>>
                ELSE /\ spc' = "loop"
                     /\ s_overlap' = ReducedOverlap(size, ovl)
                     /\ s_size' = CappedSize(size)
                     /\ sunits' = Units(strat, text)
                     /\ UNCHANGED sres
    /\ UNCHANGED <<current_idx, chunk_texts, windows>>
    /\ UNCHANGED <<embVars, concVars, qryVars, chunkVars, storeVars, convVars, instVars>>

\* One iteration of the outer while loop.
SplitIterate ==
    /\ spc = "loop"
    /\ current_idx < Len(sunits)
    /\ LET n == WindowLen(sstrat, sunits, current_idx, s_size)
           chunk == strip(JoinWith(SubSeq(sunits, current_idx + 1, current_idx + n),
                                   Separator(sstrat)))
       IN  /\ chunk_texts' = IF chunk # <<>> THEN Append(chunk_texts, chunk) ELSE chunk_texts
           /\ windows' = Append(windows, [start |-> current_idx, n |-> n, text |-> chunk])
           /\ current_idx' = current_idx + AdvanceBy(AdvanceSpan(sstrat, s_size, n), s_overlap)
    /\ UNCHANGED <<spc, stext, sstrat, s_size, s_overlap, sunits, sres>>
    /\ UNCHANGED <<embVars, concVars, qryVars, chunkVars, storeVars, convVars, instVars>>

\* The loop ends; chunk_text builds the chunk dicts and returns them.
SplitExit ==
    /\ spc = "loop"
    /\ ~(current_idx < Len(sunits))
    /\ spc' = "done"
    /\ sres' = [exc |-> "none",
                chunks |-> ChunkDicts(chunk_texts, sstrat, s_size, s_overlap)]
    /\ UNCHANGED <<stext, sstrat, s_size, s_overlap, sunits, current_idx, chunk_texts, windows>>
    /\ UNCHANGED <<embVars, concVars, qryVars, chunkVars, storeVars, convVars, instVars>>

\* The caller has the chunk list or the error.
SplitReturns ==
    /\ spc = "done"
    /\ spc' = "idle"
    /\ stext' = <<>>
    /\ sstrat' = "none"
    /\ s_size' = 0
    /\ s_overlap' = 0
    /\ sunits' = <<>>
    /\ current_idx' = 0
    /\ chunk_texts' = <<>>
    /\ windows' = <<>>
    /\ sres' = NoWindow
    /\ UNCHANGED <<embVars, concVars, qryVars, chunkVars, storeVars, convVars, instVars>>

SplitNext ==
    \/ SplitEnter
    \/ SplitIterate
    \/ SplitExit
    \/ SplitReturns

\* ------------------------------------------- the chunk store (app/crud.py)
\* The DocumentProcessing rows that exist, and the ids callers ask for.
Documents == {1}

DocIds == {1, 2}

\* The text of the chunk at position i of a document: of 10 characters, the
\* fewest DocumentChunkCreate and generate_embedding accept, and more.
TextOf(i) == Rep("x", MinTextLen + i)

\* A chunk text that is one character short of that.
ShortText == Rep("x", MinTextLen - 1)

\* A pre-generated embedding as a client hands it in: a list of 1536 floats.
PreGenerated(text) == [len |-> dimensions, of |-> text]

Row(id, doc, chunk) ==
    [id |-> id,
     document_processing_id |-> doc,
     chunk_text |-> chunk.chunk_text,
     embedding |-> chunk.embedding,
     chunk_index |-> chunk.chunk_index,
     chunk_metadata |-> chunk.chunk_metadata]

\* The validation of DocumentChunkCreate: chunk_text of 10 to 2000 characters,
\* chunk_index >= 0; embedding and chunk_metadata are optional.
ChunkCreateValid(c) ==
    /\ Len(c.chunk_text) >= MinChunkTextLen
    /\ Len(c.chunk_text) <= MaxChunkTextLen
    /\ c.chunk_index >= 0

\* DocumentChunkCreate objects: chunk_index 0 or 1, the embedding given or
\* None (NoVec), chunk_metadata None, which is stored as {}.  The constructor
\* raises for the short text, so no object has it.
ChunkCreates ==
    {c \in {[chunk_text |-> t, chunk_index |-> i,
             embedding |-> IF given THEN PreGenerated(t) ELSE NoVec,
             chunk_metadata |-> <<>>] :
                t \in {ShortText, TextOf(0)}, i \in {0, 1}, given \in BOOLEAN} :
        ChunkCreateValid(c)}

\* The lists create_document_chunks_batch is given: of 0 to 2 of these.
ChunkCreateLists == Seqs({c \in ChunkCreates : c.chunk_index = 0 \/ c.embedding # NoVec}, 2)

\* The lists create_document_chunks is given: what chunk_text returns for a
\* document of 0, 1 or 2 chunks; a chunk of a short document can be shorter
\* than generate_embedding accepts.
PipelineChunks ==
    {ChunkDicts(texts, "fixed", 500, 50) : texts \in Seqs({ShortText, TextOf(0)}, 2)}

\* The metadata dicts update_chunk_metadata is given.
Updates == {[page |-> 2], [token_count |-> 9]}

\* current_meta.update(metadata): the keys of both, the value of `metadata`
\* where it has the key.
Merged(current_meta, metadata) ==
    [k \in (DOMAIN current_meta) \cup (DOMAIN metadata) |->
        IF k \in DOMAIN metadata THEN metadata[k] ELSE current_meta[k]]

\* chunk.chunk_metadata or {}: the dict the row was loaded with, unless that
\* is None or empty, when current_meta is a new dict.
IsLoadedDict(chunk_metadata) == chunk_metadata # <<>>

\* What db.commit() leaves in the JSONB column.  The session writes an
\* attribute whose value differs from the value it was loaded with.  The
\* loaded dict, updated in place and assigned back, is that value itself: the
\* two compare equal, no UPDATE is sent, and the column keeps what it held.
Flushed(chunk_metadata, metadata) ==
    IF IsLoadedDict(chunk_metadata) THEN chunk_metadata
    ELSE Merged(<<>>, metadata)

\* db.query(models.DocumentChunk).filter_by(id=chunk_id).first(): the position
\* of the row in the table, 0 when there is none.
RowAt(db, chunk_id) ==
    IF \E i \in 1..Len(db) : db[i].id = chunk_id
    THEN CHOOSE i \in 1..Len(db) : db[i].id = chunk_id
    ELSE 0

\* The rows a commit inserts for the queued chunks: ids in the order of db.add.
Inserted(nid, doc, chunks) == [i \in 1..Len(chunks) |-> Row(nid + i - 1, doc, chunks[i])]

\* The rows the INSERT reaches before it fails on a NULL embedding: up to and
\* with the first such row.  Each of them has taken its id from the sequence
\* of the id column, and a rollback does not give ids back.
IdsTaken(chunks) ==
    IF \E i \in 1..Len(chunks) : chunks[i].embedding = NoVec
    THEN CHOOSE i \in 1..Len(chunks) :
            /\ chunks[i].embedding = NoVec
            /\ \A j \in 1..(i - 1) : chunks[j].embedding # NoVec
    ELSE Len(chunks)

NoStoreResult ==
    [exc |-> "none", status_code |-> 0, chunks |-> <<>>, count |-> 0, found |-> FALSE,
     detail |-> <<>>]

HTTPException(code, detail) ==
    [NoStoreResult EXCEPT !.exc = "HTTPException", !.status_code = code, !.detail = detail]

\* create_document_chunk: the table, the next id and the result after the call.
create_document_chunk(db, nid, doc, chunk_create) ==
    IF doc \notin Documents
    THEN [db |-> db, nid |-> nid, res |-> HTTPException(404, <<>>)]
    ELSE IF chunk_create.embedding = NoVec
    THEN [db |-> db, nid |-> nid + IdsTaken(<<chunk_create>>),
          res |-> HTTPException(400, <<>>)]
    ELSE LET rows == Inserted(nid, doc, <<chunk_create>>)
         IN  [db |-> db \o rows, nid |-> nid + 1,
              res |-> [NoStoreResult EXCEPT !.chunks = rows, !.count = 1]]

\* create_document_chunks_batch: one transaction for the whole list.
create_document_chunks_batch(db, nid, doc, chunks_data) ==
    IF doc \notin Documents
    THEN [db |-> db, nid |-> nid, res |-> HTTPException(404, <<>>)]
    ELSE IF chunks_data = <<>>
    THEN [db |-> db, nid |-> nid, res |-> NoStoreResult]
    ELSE IF \E i \in 1..Len(chunks_data) : chunks_data[i].embedding = NoVec
    THEN [db |-> db, nid |-> nid + IdsTaken(chunks_data),
          res |-> HTTPException(400, <<>>)]
    ELSE LET rows == Inserted(nid, doc, chunks_data)
         IN  [db |-> db \o rows, nid |-> nid + Len(rows),
              res |-> [NoStoreResult EXCEPT !.chunks = rows, !.count = Len(rows)]]

\* The DocumentChunk create_document_chunks queues for a chunk dict whose
\* embedding it has.
QueuedChunk(chunk, embedding) ==
    [chunk_text |-> chunk.chunk_text,
     embedding |-> embedding,
     chunk_index |-> chunk.chunk_index,
     chunk_metadata |-> [token_count |-> chunk.token_count,
                         source_metadata |-> chunk.metadata,
                         embedded_at |-> "now"]]

\* The entry failed_chunks gets for a chunk whose generate_embedding raised.
FailedChunk(chunk, error) == [chunk_index |-> chunk.chunk_index, error |-> error]

\* How db.commit() and the db.refresh() calls after it can go for n queued
\* rows: the commit succeeds and the rows are read back; the commit succeeds
\* and a refresh raises (the rollback of the handler then undoes nothing:
\* the rows stay); or the commit raises (the connection is lost, say) after
\* the INSERT has reached some of the rows.
CommitOutcomes(n) ==
    {[ok |-> TRUE, refreshed |-> r, ids |-> n] : r \in BOOLEAN}
    \cup {[ok |-> FALSE, refreshed |-> FALSE, ids |-> k] : k \in 0..n}

\* create_document_chunks after its loop: commit the queued chunks and return
\* them, or raise.  failed_chunks goes to the log, and into the detail of the
\* HTTPException when no chunk was embedded.
create_document_chunks_commit(db, nid, doc, queued, failed, commit) ==
    IF queued = <<>>
    THEN [db |-> db, nid |-> nid, res |-> HTTPException(400, failed)]
    ELSE IF ~commit.ok
    THEN [db |-> db, nid |-> nid + commit.ids, res |-> HTTPException(500, <<>>)]
    ELSE LET rows == Inserted(nid, doc, queued)
         IN  [db |-> db \o rows, nid |-> nid + Len(rows),
              res |-> IF commit.refreshed
                      THEN [NoStoreResult EXCEPT !.chunks = rows, !.count = Len(rows)]
                      ELSE HTTPException(500, <<>>)]

\* update_chunk_metadata: found tells the row from None.  db.refresh() reads
\* the row back, so the chunk returned is the row as the commit left it.
update_chunk_metadata(db, chunk_id, metadata) ==
    LET i == RowAt(db, chunk_id)
    IN  IF i = 0 THEN [db |-> db, res |-> NoStoreResult]
        ELSE LET chunk == [db[i] EXCEPT !.chunk_metadata = Flushed(@, metadata)]
             IN  [db |-> [db EXCEPT ![i] = chunk],
                  res |-> [NoStoreResult EXCEPT !.found = TRUE, !.chunks = <<chunk>>]]

\* delete_document_chunk: found is the bool it returns.
delete_document_chunk(db, chunk_id) ==
    LET keep(r) == r.id # chunk_id
    IN  IF RowAt(db, chunk_id) = 0 THEN [db |-> db, res |-> NoStoreResult]
        ELSE [db |-> SelectSeq(db, keep), res |-> [NoStoreResult EXCEPT !.found = TRUE]]

\* delete_document_chunks_by_document: count is the int it returns.
delete_document_chunks_by_document(db, doc) ==
    LET keep(r) == r.document_processing_id # doc
        left == SelectSeq(db, keep)
    IN  [db |-> left, res |-> [NoStoreResult EXCEPT !.count = Len(db) - Len(left)]]

\* created and failed: history, the chunk_index of the chunks that
\* create_document_chunks had queued for insertion, and its failed_chunks,
\* when its loop was over.
NoOp == [name |-> "init", doc |-> 0, chunk_id |-> 0, chunks |-> <<>>,
         metadata |-> <<>>, before |-> <<>>, created |-> <<>>, failed |-> <<>>]

StoreInit ==
    /\ db_chunks = <<>>
    /\ next_id = 1
    /\ store_op = NoOp
    /\ store_res = NoStoreResult
    /\ ppc = "idle"
    /\ chunk_pos = 0
    /\ created_chunks = <<>>
    /\ failed_chunks = <<>>

CreateDocumentChunk ==
    /\ ppc = "idle"
    /\ next_id <= MaxIds
    /\ \E doc \in DocIds, chunk_create \in ChunkCreates :
        LET r == create_document_chunk(db_chunks, next_id, doc, chunk_create)
        IN  /\ db_chunks' = r.db
            /\ next_id' = r.nid
            /\ store_res' = r.res
            /\ store_op' = [NoOp EXCEPT !.name = "create_document_chunk", !.doc = doc,
                                        !.chunks = <<chunk_create>>, !.before = db_chunks]
    /\ UNCHANGED <<pipeVars, embVars, concVars, qryVars, chunkVars, splitVars, convVars,
                   instVars>>

CreateDocumentChunksBatch ==
    /\ ppc = "idle"
    /\ \E doc \in DocIds, chunks_data \in ChunkCreateLists :
        /\ next_id + Len(chunks_data) - 1 <= MaxIds
        /\ LET r == create_document_chunks_batch(db_chunks, next_id, doc, chunks_data)
           IN  /\ db_chunks' = r.db
               /\ next_id' = r.nid
               /\ store_res' = r.res
               /\ store_op' = [NoOp EXCEPT !.name = "create_document_chunks_batch",
                                           !.doc = doc, !.chunks = chunks_data,
                                           !.before = db_chunks]
    /\ UNCHANGED <<pipeVars, embVars, concVars, qryVars, chunkVars, splitVars, convVars,
                   instVars>>

\* create_document_chunks up to its first call out: the document is looked
\* up, and for a list that is not empty generate_embedding is entered with
\* the text of the first chunk.
CreateDocumentChunks ==
    /\ ppc = "idle"
    /\ epc = "idle"
    /\ \E doc \in DocIds, chunks \in PipelineChunks :
        /\ next_id + Len(chunks) - 1 <= MaxIds
        /\ ncalls + Len(chunks) <= MaxCalls
        /\ store_op' = [NoOp EXCEPT !.name = "create_document_chunks", !.doc = doc,
                                    !.chunks = chunks, !.before = db_chunks]
        /\ IF doc \notin Documents
           THEN /\ store_res' = HTTPException(404, <<>>)
                /\ UNCHANGED <<ppc, chunk_pos, callVars>>
           ELSE IF chunks = <<>>
           THEN /\ store_res' = NoStoreResult
                /\ UNCHANGED <<ppc, chunk_pos, callVars>>
           ELSE /\ store_res' = NoStoreResult
                /\ ppc' = "embedding"
                /\ chunk_pos' = 1
                /\ etext' = chunks[1].chunk_text
                /\ epc' = "running"
                /\ attempt' = 1
                /\ reqs' = <<>>
                /\ eres' = [NoResult EXCEPT !.before = total_tokens]
                /\ ncalls' = ncalls + 1
                /\ lastOp' = "generate_embedding"
                /\ UNCHANGED <<summary, btexts, bres>>
    /\ created_chunks' = <<>>
    /\ failed_chunks' = <<>>
    /\ UNCHANGED <<db_chunks, next_id, counters, concVars, qryVars, chunkVars, splitVars,
                   convVars, instVars>>

\* generate_embedding has ended for the chunk at chunk_pos: the chunk is
\* queued for insertion with its vector, or goes to failed_chunks; then
\* generate_embedding is entered for the next chunk, or the loop is over.
P_Embedded ==
    /\ ppc = "embedding"
    /\ epc = "done"
    /\ LET chunk == store_op.chunks[chunk_pos]
       IN  IF eres.status = "ok"
           THEN /\ created_chunks' = Append(created_chunks, QueuedChunk(chunk, eres.vec))
                /\ UNCHANGED failed_chunks
           ELSE /\ failed_chunks' = Append(failed_chunks, FailedChunk(chunk, eres.exc))
                /\ UNCHANGED created_chunks
    /\ reqs' = <<>>
    /\ IF chunk_pos < Len(store_op.chunks)
       THEN /\ chunk_pos' = chunk_pos + 1
            /\ etext' = store_op.chunks[chunk_pos + 1].chunk_text
            /\ epc' = "running"
            /\ attempt' = 1
            /\ eres' = [NoResult EXCEPT !.before = total_tokens]
            /\ ncalls' = ncalls + 1
            /\ UNCHANGED ppc
       ELSE /\ ppc' = "commit"
            /\ epc' = "idle"
            /\ etext' = <<>>
            /\ attempt' = 0
            /\ eres' = NoResult
            /\ UNCHANGED <<chunk_pos, ncalls>>
    /\ UNCHANGED <<db_chunks, next_id, store_op, store_res, counters, summary, btexts, bres,
                   lastOp, concVars, qryVars, chunkVars, splitVars, convVars, instVars>>

\* create_document_chunks after its loop: the commit of the queued chunks, or
\* the HTTPException; either way the call has ended.
P_Commit ==
    /\ ppc = "commit"
    /\ \E commit \in CommitOutcomes(Len(created_chunks)) :
        LET r == create_document_chunks_commit(db_chunks, next_id, store_op.doc,
                                               created_chunks, failed_chunks, commit)
        IN  /\ db_chunks' = r.db
            /\ next_id' = r.nid
            /\ store_res' = r.res
    /\ store_op' = [store_op EXCEPT
                       !.created = [i \in 1..Len(created_chunks) |->
                                       created_chunks[i].chunk_index],
                       !.failed = failed_chunks]
    /\ ppc' = "idle"
    /\ chunk_pos' = 0
    /\ created_chunks' = <<>>
    /\ failed_chunks' = <<>>
    /\ UNCHANGED <<embVars, concVars, qryVars, chunkVars, splitVars, convVars,
                   instVars>>

UpdateChunkMetadata ==
    /\ ppc = "idle"
    /\ \E chunk_id \in 1..(MaxIds + 1), metadata \in Updates :
        LET r == update_chunk_metadata(db_chunks, chunk_id, metadata)
        IN  /\ db_chunks' = r.db
            /\ store_res' = r.res
            /\ store_op' = [NoOp EXCEPT !.name = "update_chunk_metadata",
                                        !.chunk_id = chunk_id, !.metadata = metadata,
                                        !.before = db_chunks]
    /\ UNCHANGED next_id
    /\ UNCHANGED <<pipeVars, embVars, concVars, qryVars, chunkVars, splitVars, convVars,
                   instVars>>

DeleteDocumentChunk ==
    /\ ppc = "idle"
    /\ \E chunk_id \in 1..(MaxIds + 1) :
        LET r == delete_document_chunk(db_chunks, chunk_id)
        IN  /\ db_chunks' = r.db
            /\ store_res' = r.res
            /\ store_op' = [NoOp EXCEPT !.name = "delete_document_chunk",
                                        !.chunk_id = chunk_id, !.before = db_chunks]
    /\ UNCHANGED next_id
    /\ UNCHANGED <<pipeVars, embVars, concVars, qryVars, chunkVars, splitVars, convVars,
                   instVars>>

DeleteDocumentChunksByDocument ==
    /\ ppc = "idle"
    /\ \E doc \in DocIds :
        LET r == delete_document_chunks_by_document(db_chunks, doc)
        IN  /\ db_chunks' = r.db
            /\ store_res' = r.res
            /\ store_op' = [NoOp EXCEPT !.name = "delete_document_chunks_by_document",
                                        !.doc = doc, !.before = db_chunks]
    /\ UNCHANGED next_id
    /\ UNCHANGED <<pipeVars, embVars, concVars, qryVars, chunkVars, splitVars, convVars,
                   instVars>>

\* The operations that are one transaction each.
StoreNext ==
    \/ CreateDocumentChunk
    \/ CreateDocumentChunksBatch
    \/ UpdateChunkMetadata
    \/ DeleteDocumentChunk
    \/ DeleteDocumentChunksByDocument

\* create_document_chunks with the embedding service it calls, and the
\* deletions that make room for its next run.
PipeNext ==
    \/ CreateDocumentChunks
    \/ Attempt
    \/ P_Embedded
    \/ P_Commit
    \/ DeleteDocumentChunk
    \/ DeleteDocumentChunksByDocument

\* ------------------------------------------------------------ Conversation
Roles == {"user", "assistant"}

\* limit, when it is given: 0 to one more than the longest list, but for the
\* default, which the call without a limit brings.
Limits == (0..(MaxMessages + 1)) \ {DefaultLimit}

\* s[k:] of a list, k being negative, zero or positive.
SliceFrom(s, k) ==
    LET start == IF k < 0 THEN Max(Len(s) + k, 0) ELSE Min(k, Len(s))
    IN  SubSeq(s, start + 1, Len(s))

\* Conversation.get_context_messages
get_context_messages(msgs, limit) ==
    IF msgs = <<>> THEN <<>>
    ELSE IF Len(msgs) > limit THEN SliceFrom(msgs, 0 - limit) ELSE msgs

NoContext == [limit |-> -1, result |-> <<>>, of |-> <<>>]

ConvInit ==
    /\ messages = <<>>
    /\ context = NoContext

\* A turn is appended to the conversation; its content is its number.
AppendTurn ==
    /\ Len(messages) < MaxMessages
    /\ \E role \in Roles :
        messages' = Append(messages, [role |-> role, content |-> Len(messages) + 1])
    /\ context' = NoContext
    /\ UNCHANGED <<embVars, concVars, qryVars, chunkVars, splitVars, storeVars, instVars>>

\* get_context_messages(limit) is called; `of` is the list it was called on.
GetContextMessages ==
    /\ \E limit \in Limits :
        context' = [limit |-> limit, result |-> get_context_messages(messages, limit),
                    of |-> messages]
    /\ UNCHANGED messages
    /\ UNCHANGED <<embVars, concVars, qryVars, chunkVars, splitVars, storeVars, instVars>>

\* get_context_messages() is called without a limit.
GetContextMessagesDefault ==
    /\ context' = [limit |-> DefaultLimit,
                   result |-> get_context_messages(messages, DefaultLimit),
                   of |-> messages]
    /\ UNCHANGED messages
    /\ UNCHANGED <<embVars, concVars, qryVars, chunkVars, splitVars, storeVars, instVars>>

ConvNext ==
    \/ AppendTurn
    \/ GetContextMessages
    \/ GetContextMessagesDefault

\* --------------------------------------------------- get_embedding_service
Callers == 1..NCallers

\* _embedding_service_instance = None; no caller has called yet.
InstInit ==
    /\ instance = 0
    /\ created = 0
    /\ gpc = [t \in Callers |-> "idle"]
    /\ gnew = [t \in Callers |-> 0]
    /\ gret = [t \in Callers |-> 0]

\* Caller t calls get_embedding_service.
G_Call(t) ==
    /\ gpc[t] = "idle"
    /\ gpc' = [gpc EXCEPT ![t] = "test"]
    /\ UNCHANGED <<instance, created, gnew, gret>>
    /\ UNCHANGED <<embVars, concVars, qryVars, chunkVars, splitVars, storeVars, convVars>>

\* if _embedding_service_instance is None
G_Test(t) ==
    /\ gpc[t] = "test"
    /\ gpc' = [gpc EXCEPT ![t] = IF instance = 0 THEN "construct" ELSE "return"]
    /\ UNCHANGED <<instance, created, gnew, gret>>
    /\ UNCHANGED <<embVars, concVars, qryVars, chunkVars, splitVars, storeVars, convVars>>

\* EmbeddingService(): a new instance, with counters of its own, is built.
G_Construct(t) ==
    /\ gpc[t] = "construct"
    /\ created' = created + 1
    /\ gnew' = [gnew EXCEPT ![t] = created + 1]
    /\ gpc' = [gpc EXCEPT ![t] = "assign"]
    /\ UNCHANGED <<instance, gret>>
    /\ UNCHANGED <<embVars, concVars, qryVars, chunkVars, splitVars, storeVars, convVars>>

\* _embedding_service_instance = <the new instance>
G_Assign(t) ==
    /\ gpc[t] = "assign"
    /\ instance' = gnew[t]
    /\ gnew' = [gnew EXCEPT ![t] = 0]
    /\ gpc' = [gpc EXCEPT ![t] = "return"]
    /\ UNCHANGED <<created, gret>>
    /\ UNCHANGED <<embVars, concVars, qryVars, chunkVars, splitVars, storeVars, convVars>>

\* return _embedding_service_instance
G_Return(t) ==
    /\ gpc[t] = "return"
    /\ gret' = [gret EXCEPT ![t] = instance]
    /\ gpc' = [gpc EXCEPT ![t] = "done"]
    /\ UNCHANGED <<instance, created, gnew>>
    /\ UNCHANGED <<embVars, concVars, qryVars, chunkVars, splitVars, storeVars, convVars>>

InstNext ==
    \E t \in Callers :
        \/ G_Call(t)
        \/ G_Test(t)
        \/ G_Construct(t)
        \/ G_Assign(t)
        \/ G_Return(t)

Init ==
    /\ EmbInit
    /\ ConcInit
    /\ QryInit
    /\ ChunkInit
    /\ SplitInit
    /\ StoreInit
    /\ ConvInit
    /\ InstInit

SpecEmbed == Init /\ [][EmbNext]_vars

SpecConc == Init /\ [][ConcNext]_vars

SpecQuery == Init /\ [][QryNext]_vars

SpecChunk == Init /\ [][ChunkNext]_vars

SpecSplit == Init /\ [][SplitNext]_vars

SpecStore == Init /\ [][StoreNext]_vars

SpecPipeline == Init /\ [][PipeNext]_vars

SpecConv == Init /\ [][ConvNext]_vars

SpecInst == Init /\ [][InstNext]_vars

\* The call runs on its caller's thread and nothing in the loop waits: an
\* iteration that can run does run, and so does the return.
SpecSplitFair == SpecSplit /\ WF_vars(SplitIterate) /\ WF_vars(SplitExit)


\* ------------------------------------------------------- claims on query
Ran(step) == \E i \in 1..Len(steps) : steps[i] = step

Times(step) == Cardinality({i \in 1..Len(steps) : steps[i] = step})

IsPrefix(a, b) == Len(a) <= Len(b) /\ \A i \in 1..Len(a) : a[i] = b[i]

QueryDone == qpc = "done"

\* C1: when the similarity search returns an empty list, the query returns
\* the fixed refusal with confidence 0, chunks_used 0 and no sources, and the
\* completion API is not called in that query.
C1_NoContextRefusal ==
    (outcomes.search = "ok" /\ search_results = <<>>)
    => /\ QueryDone
       /\ qres.status = "ok"
       /\ qres.answer = REFUSAL
       /\ qres.confidence = 0
       /\ qres.chunks_used = 0
       /\ qres.sources = <<>>
       /\ ~Ran("chat")
       /\ outcomes.chat = "none"

\* A query whose store held chunks, none of them similar enough, was refused.
C1_Witness ==
    /\ QueryDone
    /\ outcomes.search = "ok"
    /\ candidates # <<>>
    /\ search_results = <<>>
    /\ qres.answer = REFUSAL

\* C2: when the search returns at least one chunk the completion API is
\* called exactly once; when that call fails the query ends with an error and
\* no response, and the call is not repeated.
C2_CompletionFailureIsHard ==
    (outcomes.search = "ok" /\ search_results # <<>>)
    => /\ Times("chat") = 1
       /\ QueryDone => outcomes.chat # "none"
       /\ (QueryDone /\ outcomes.chat = "error")
            => /\ qres.status = "raised"
               /\ qres.answer = "none"
               /\ qres.sources = <<>>
               /\ qres.chunks_used = -1

\* A grounded query whose completion call failed has ended with an error.
C2_Witness ==
    /\ QueryDone
    /\ search_results # <<>>
    /\ outcomes.chat = "error"
    /\ qres.status = "raised"
    /\ Times("chat") = 1

\* C3: the steps of a query run in the order validation, embedding, search,
\* completion, each at most once; a blank question ends the query at the
\* validation, a failed embedding before the search, a failed search before
\* the completion call.
C3_StepOrder ==
    /\ IsPrefix(steps, <<"validate", "embed", "search", "chat">>)
    /\ (qpc # "idle" /\ QuestionRejected(question))
         => (steps = <<"validate">> /\ QueryDone /\ qres.status = "raised")
    /\ outcomes.embed = "error"
         => (~Ran("search") /\ ~Ran("chat") /\ QueryDone /\ qres.status = "raised")
    /\ outcomes.search = "error"
         => (~Ran("chat") /\ QueryDone /\ qres.status = "raised")

\* A query whose embedding failed ended without a search.
C3_Witness ==
    /\ QueryDone
    /\ steps = <<"validate", "embed">>
    /\ outcomes.embed = "error"
    /\ qres.status = "raised"

\* A query that ran all four steps.
C3_WitnessAllSteps ==
    /\ QueryDone
    /\ steps = <<"validate", "embed", "search", "chat">>
    /\ qres.status = "ok"

\* C4: every chunk a query uses has similarity_score >= min_similarity,
\* whatever the store hands back: the scores averaged into the confidence, the
\* citations, and chunks_used counts no more chunks than the store holds at
\* or above the threshold; store scores 0.95, 0.85, 0.5 with min_similarity
\* 0.9 leave the first chunk alone.
C4_ThresholdRespected ==
    (QueryDone /\ qres.status = "ok")
         => /\ \A i \in 1..Len(qres.scores) : qres.scores[i] >= min_similarity
            /\ \A i \in 1..Len(qres.sources) :
                  qres.sources[i].similarity_score >= min_similarity
            /\ qres.chunks_used
                 <= Cardinality({i \in 1..Len(candidates) : candidates[i] >= min_similarity})
            /\ (candidates = <<950, 850, 500>> /\ min_similarity = 900 /\ top_k = 3)
                 => (qres.chunks_used = 1 /\ qres.scores = <<950>>)

\* ------------------------------------------------ claims on generate_embedding
\* A request whose answer the body accepts and returns.
RequestGood(out) == out.kind = "ok" /\ out.len = dimensions

\* The exception the body raises for a request it does not accept.
ErrorOf(out) == IF out.kind = "ok" THEN "ValueError" ELSE out.kind

CallActive == epc \in {"running", "done"} /\ lastOp = "generate_embedding"

CallDone == epc = "done" /\ lastOp = "generate_embedding"

\* C5: one generate_embedding call makes at most 3 embedding-API requests; a
\* rate-limited request is followed by another one unless it was the third; the
\* call returns a vector when one of its requests succeeds; and it ends with an
\* error once 3 requests have failed.
C5_BoundedRetry ==
    CallActive =>
        /\ Len(reqs) <= 3
        /\ \A i \in 1..Len(reqs) :
            (reqs[i].kind = "RateLimitError" /\ i < 3 /\ epc = "done") => Len(reqs) > i
        /\ (epc = "done" /\ \E i \in 1..Len(reqs) : RequestGood(reqs[i]))
              => (eres.status = "ok" /\ eres.vec # NoVec)
        /\ (epc = "done" /\ Len(reqs) = 3 /\ \A i \in 1..3 : ~RequestGood(reqs[i]))
              => (eres.status = "raised" /\ eres.vec = NoVec)

\* A call whose three requests were all rate limited has ended with an error.
C5_Witness ==
    /\ CallDone
    /\ Len(reqs) = 3
    /\ \A i \in 1..3 : reqs[i].kind = "RateLimitError"
    /\ eres.status = "raised"

\* A call that was rate limited twice and then got its vector.
C5_WitnessRecovered ==
    /\ CallDone
    /\ Len(reqs) = 3
    /\ reqs[1].kind = "RateLimitError" /\ reqs[2].kind = "RateLimitError"
    /\ eres.status = "ok"

\* C6: when the first request of a call fails for a reason other than rate
\* limiting (authentication error, malformed response, wrong dimension), the
\* call is over after that one request and the caller has that error.
C6_NonTransientFailsAtOnce ==
    (CallActive /\ Len(reqs) >= 1 /\ ~RequestGood(reqs[1])
        /\ reqs[1].kind # "RateLimitError")
    => /\ epc = "done"
       /\ Len(reqs) = 1
       /\ eres.status = "raised"
       /\ eres.exc = ErrorOf(reqs[1])

\* C7: a text whose trimmed length is below 10 is rejected before any request;
\* the validation runs once and the caller gets the ValueError itself.
C7_ShortTextRejectedOnce ==
    (CallActive /\ TextRejected(etext))
    => /\ reqs = <<>>
       /\ attempt = 1
       /\ epc = "done" => /\ eres.status = "raised"
                          /\ eres.exc = "ValueError"
                          /\ eres.validations = 1

\* C8: whenever no call is in progress total_tokens is the sum of the tokens
\* reported to the calls that returned vectors since construction or the last
\* reset; right after reset_metrics the totals and the average are 0.
C8_UsageAdditive ==
    /\ epc # "running" => total_tokens = succTokens
    /\ lastOp = "reset_metrics" =>
          /\ total_tokens = 0
          /\ total_cost = 0
          /\ \A s \in get_cost_summary :
                s.total_cost = 0 /\ s.avg_cost_per_token.num = 0

\* C9: a vector a call returns has 1536 dimensions, and a call in which the
\* API answered with a vector of another length raises the dimension error
\* (a ValueError) and returns no vector.
C9_DimensionChecked ==
    CallDone =>
        /\ eres.status = "ok" => eres.vec.len = 1536
        /\ (\E i \in 1..Len(reqs) : reqs[i].kind = "ok" /\ reqs[i].len # 1536)
              => /\ eres.status = "raised"
                 /\ eres.exc = "ValueError"
                 /\ eres.vec = NoVec


\* ------------------------------------------------- claims on shared instances
AllCallsFinished == \A t \in Threads : tpc[t] = "done"

\* C10: once all concurrent calls on the shared instance have finished,
\* total_tokens is the sum of the tokens of the calls that succeeded.
C10_NoLostUpdate == AllCallsFinished => total_tokens = succTokens

\* ------------------------------------------ claims on generate_embeddings_batch
BatchDone == epc = "done" /\ lastOp = "generate_embeddings_batch"

\* C11: a generate_embeddings_batch call that returns gives one vector per
\* input text, and vector i is the embedding of input text i.
C11_BatchOrderPreserved ==
    (BatchDone /\ bres.status = "ok")
    => /\ Len(bres.vecs) = Len(btexts)
       /\ \A i \in 1..Len(btexts) : bres.vecs[i].of = btexts[i]

\* A batch of two different texts came back with two vectors.
C11_Witness ==
    /\ BatchDone
    /\ bres.status = "ok"
    /\ Len(btexts) = 2
    /\ btexts[1] # btexts[2]
    /\ Len(bres.vecs) = 2

\* ------------------------------------------------ claims on the RAGResponse
\* A query that found chunks and got its answer.
Grounded == QueryDone /\ qres.status = "ok" /\ search_results # <<>>

RetrievedScores == [i \in 1..Len(search_results) |-> search_results[i].similarity_score]

Abs(x) == IF x < 0 THEN -x ELSE x

\* C12 as stated: the confidence of a grounded answer is exactly the mean of
\* the similarity scores of the retrieved chunks.
C12_ConfidenceIsMean ==
    Grounded => qres.confidence * Len(search_results) = Sum(RetrievedScores)

\* C12, amended: the confidence of a grounded answer is the mean of the
\* similarity scores of all retrieved chunks, clamped to [0, 1] and rounded to
\* 3 decimals, whatever text the completion API returned; scores 0.9, 0.8,
\* 0.7 give 0.8.
C12_ConfidenceIsRoundedMean ==
    Grounded
    => /\ 0 <= qres.confidence /\ qres.confidence <= 1000
       /\ 2 * Abs(qres.confidence * Len(search_results) - Sum(RetrievedScores))
            <= Len(search_results)
       /\ RetrievedScores = <<900, 800, 700>> => qres.confidence = 800

\* Scores 0.9, 0.8 and 0.7 gave confidence 0.8 to an answer whose text is the
\* fallback: the completion API had returned blank text.
C12_Witness ==
    /\ Grounded
    /\ RetrievedScores = <<900, 800, 700>>
    /\ qres.confidence = 800
    /\ qres.answer = FALLBACK

\* C13: the sources of a grounded answer hold one citation per retrieved
\* chunk, in retrieval order: len(sources) = chunks_used = the number of
\* retrieved chunks.
C13_OneCitationPerChunk ==
    Grounded
    => /\ qres.chunks_used = Len(search_results)
       /\ Len(qres.sources) = qres.chunks_used
       /\ \A i \in 1..Len(qres.sources) :
             qres.sources[i].chunk_id = search_results[i].chunk_id

\* C14: a failure of the query embedding or of the chunk search reaches the
\* caller of query unchanged in kind: the exception the caller gets is of the
\* kind of the failure (rate limit, authentication, invalid input), so that
\* the caller can tell these apart by type.
C14_FailureKindPreserved ==
    (QueryDone /\ qres.status = "raised" /\ qres.stage \in {"embedding", "search"})
    => qres.exc = qres.cause

\* C15: the answer of every RAGResponse query returns is non-blank; when the
\* completion API returned empty or whitespace-only text the answer is the
\* fixed fallback, and chunks_used, confidence and sources are still those of
\* the retrieved chunks.
C15_AnswerNeverBlank ==
    (QueryDone /\ qres.status = "ok")
    => /\ IF qres.answer = REFUSAL \/ qres.answer = FALLBACK THEN TRUE
          ELSE strip(qres.answer) # <<>>
       /\ (outcomes.chat = "ok" /\ strip(outcomes.reply) = <<>>)
            => /\ qres.answer = FALLBACK
               /\ qres.chunks_used = Len(search_results)
               /\ qres.chunks_used > 0
               /\ 2 * Abs(qres.confidence * Len(search_results) - Sum(RetrievedScores))
                    <= Len(search_results)
               /\ \A i \in 1..Len(qres.sources) :
                     \E j \in 1..Len(search_results) :
                        /\ search_results[j].chunk_id = qres.sources[i].chunk_id
                        /\ search_results[j].similarity_score
                             = qres.sources[i].similarity_score

\* The completion API returned whitespace only, and the response carries the
\* fallback answer with the two retrieved chunks as its sources.
C15_Witness ==
    /\ QueryDone
    /\ qres.status = "ok"
    /\ outcomes.chat = "ok"
    /\ outcomes.reply # <<>>
    /\ strip(outcomes.reply) = <<>>
    /\ qres.answer = FALLBACK
    /\ qres.chunks_used = 2
    /\ Len(qres.sources) = 2

\* ---------------------------------------------------- claims on chunk_text
ChunkDone == cpc = "done"

\* The text has a character that is not whitespace.
NonBlank(text) == \E i \in 1..Len(text) : ~IsSpace(text[i])

\* C16: chunk_text returns an empty list, without raising, for a text that
\* is empty or whitespace-only; for every other text, with chunk_size > 0 and
\* overlap >= 0 and under each strategy, it returns at least one chunk and no
\* chunk has an empty text.
C16_EmptyOnlyForBlank ==
    ChunkDone
    => /\ ~NonBlank(ctext) => (cres.exc = "none" /\ cres.chunks = <<>>)
       /\ (NonBlank(ctext) /\ chunk_size > 0 /\ overlap >= 0)
            => /\ cres.exc = "none"
               /\ Len(cres.chunks) >= 1
               /\ \A i \in 1..Len(cres.chunks) :
                     /\ cres.chunks[i].chunk_text # <<>>
                     /\ NonBlank(cres.chunks[i].chunk_text)

\* A whitespace-only text was chunked into the empty list.
C16_Witness ==
    /\ ChunkDone
    /\ ctext # <<>>
    /\ ~NonBlank(ctext)
    /\ chunk_size > 0
    /\ cres.exc = "none"
    /\ cres.chunks = <<>>

\* A text of two words under chunk_size 1 gave chunks none of which is empty.
C16_WitnessChunks ==
    /\ ChunkDone
    /\ ctext = <<"x", " ", "x">>
    /\ chunk_size = 1
    /\ Len(cres.chunks) = 2

\* C17: a call with chunk_size <= 0 or with overlap < 0 raises ValueError,
\* whatever the text and the other arguments are.
C17_BadArgumentsRaise ==
    (ChunkDone /\ (chunk_size <= 0 \/ overlap < 0))
    => (cres.exc = "ValueError" /\ cres.chunks = <<>>)

\* C18: a call with chunk_size > 0 and overlap >= chunk_size does not fail
\* and returns the chunk list (texts, chunk_index, token_count, metadata) that
\* the call with overlap = max(0, chunk_size - 100) returns; chunk_size 100
\* with overlap 150 gives what chunk_size 100 with overlap 0 gives.
C18_OverlapClamped ==
    (ChunkDone /\ chunk_size > 0 /\ overlap >= chunk_size)
    => /\ cres.exc = "none"
       /\ cres = chunk_text(ctext, chunk_size, Max(0, chunk_size - 100), strategy)
       /\ \A i \in 1..Len(cres.chunks) :
             cres.chunks[i].metadata.overlap_config = Max(0, chunk_size - 100)
       /\ (chunk_size = 100 /\ overlap = 150)
            => cres = chunk_text(ctext, 100, 0, strategy)

\* A call with chunk_size 2 and overlap 3 gave two chunks made with overlap 0.
C18_Witness ==
    /\ ChunkDone
    /\ chunk_size = 2
    /\ overlap = 3
    /\ strategy = "fixed"
    /\ Len(cres.chunks) = 2
    /\ cres.chunks[2].metadata.overlap_config = 0

\* The whitespace-delimited tokens of a text: its runs of non-blank characters.
Words(text) ==
    Cardinality({i \in 1..Len(text) :
                   ~IsSpace(text[i]) /\ (i = 1 \/ IsSpace(text[i - 1]))})

CeilDiv(a, b) == (a + b - 1) \div b

FixedCall ==
    /\ ChunkDone
    /\ strategy = "fixed"
    /\ chunk_size > 0
    /\ overlap >= 0
    /\ overlap < chunk_size

\* C19: under the fixed strategy with valid arguments the number of chunks is
\* ceil(N / (chunk_size - overlap)), N being the number of whitespace-delimited
\* tokens of the text.
C19_FixedChunkCount ==
    (FixedCall /\ NonBlank(ctext))
    => Len(cres.chunks) = CeilDiv(Words(ctext), chunk_size - overlap)

\* A chunk text without the first n of its tokens.
DropTokens(text, n) ==
    LET toks == tokens(text)
    IN  Join(SubSeq(toks, Min(n, Len(toks)) + 1, Len(toks)))

\* The chunks concatenated in chunk_index order, every chunk but the first
\* without the tokens it shares with the one before it.
RECURSIVE Reconstructed(_, _)
Reconstructed(chunks, ovl) ==
    IF chunks = <<>> THEN <<>>
    ELSE IF Head(chunks).chunk_index = 0
         THEN Head(chunks).chunk_text \o Reconstructed(Tail(chunks), ovl)
         ELSE DropTokens(Head(chunks).chunk_text, ovl) \o Reconstructed(Tail(chunks), ovl)

\* C20: under the fixed strategy with valid arguments the chunks of a text
\* that is not empty (here: not blank either), concatenated in order with the
\* overlapping tokens removed, are the original text, whitespace included.
C20_FixedRoundTrip ==
    (FixedCall /\ NonBlank(ctext)) => Reconstructed(cres.chunks, overlap) = ctext

\* ------------------------------------------- claims on the splitting loops
\* A call under the sentence or the semantic strategy has returned its chunks.
GroupedDone ==
    /\ spc = "done"
    /\ sstrat \in {"sentence", "semantic"}
    /\ sres.exc = "none"
    /\ sunits # <<>>

\* C21: under the sentence and the semantic strategy every chunk built from
\* more than one sentence or section has token_count <= chunk_size; a chunk
\* whose token_count exceeds chunk_size is one single sentence or section that
\* alone exceeds chunk_size, and its text is that unit, whole.
C21_BudgetKeptButForSingleUnit ==
    GroupedDone
    => /\ Len(sres.chunks) = Len(windows)
       /\ \A i \in 1..Len(sres.chunks) :
            LET c == sres.chunks[i]
                w == windows[i]
            IN  /\ c.chunk_text = w.text
                /\ w.n > 1 => c.token_count <= s_size
                /\ c.token_count > s_size
                     => /\ w.n = 1
                        /\ c.chunk_text = sunits[w.start + 1]
                        /\ count_tokens(sunits[w.start + 1]) > s_size

\* Three sentences under chunk_size 2: the first chunk holds two sentences of
\* one token each, the second is the third sentence alone, of three tokens.
C21_Witness ==
    /\ GroupedDone
    /\ s_size = 2
    /\ Len(windows) >= 2
    /\ \E i \in 1..Len(windows) : windows[i].n = 2 /\ sres.chunks[i].token_count = 2
    /\ \E i \in 1..Len(windows) : windows[i].n = 1 /\ sres.chunks[i].token_count > 2

\* C24: chunk_text terminates for every text and every accepted chunk_size and
\* overlap under each strategy: every iteration of the outer loop moves the
\* window start forward by at least 1, and a call that has entered the loop
\* comes to its return.
C24_LoopTerminates ==
    /\ [][(spc = "loop" /\ spc' = "loop") => current_idx' >= current_idx + 1]_vars
    /\ (spc = "loop") ~> (spc = "done")

\* A call under the sentence strategy has returned after three windows of one
\* sentence each, the overlap being at least the one unit of each chunk.
C24_Witness ==
    /\ spc = "done"
    /\ sstrat = "sentence"
    /\ s_overlap >= 1
    /\ Len(windows) = 3
    /\ \A i \in 1..Len(windows) : windows[i].n <= s_overlap /\ windows[i].start = i - 1

\* C29: under the sentence and the semantic strategy every sentence or section
\* of the text is in at least one chunk, every chunk is a run of consecutive
\* units in their order, and every chunk starts after the start of the chunk
\* before it and not beyond that chunk's end.
C29_WindowsCoverAllUnits ==
    GroupedDone
    => /\ Len(sres.chunks) = Len(windows)
       /\ \A u \in 1..Len(sunits) :
            \E i \in 1..Len(windows) :
                windows[i].start + 1 <= u /\ u <= windows[i].start + windows[i].n
       /\ \A i \in 1..Len(windows) :
            /\ windows[i].n >= 1
            /\ windows[i].start + windows[i].n <= Len(sunits)
            /\ sres.chunks[i].chunk_text =
                 JoinWith(SubSeq(sunits, windows[i].start + 1,
                                 windows[i].start + windows[i].n), Separator(sstrat))
       /\ \A i \in 2..Len(windows) :
            /\ windows[i].start > windows[i - 1].start
            /\ windows[i].start <= windows[i - 1].start + windows[i - 1].n

\* Three sentences under overlap 1: the second chunk starts inside the first
\* and the last sentence is in the last chunk.
C29_Witness ==
    /\ GroupedDone
    /\ s_overlap = 1
    /\ Len(sunits) = 3
    /\ Len(windows) >= 2
    /\ windows[1].n = 2
    /\ windows[2].start = 1
    /\ windows[Len(windows)].start + windows[Len(windows)].n = 3

\* C23: for every input chunk_text accepts, the values recorded in the
\* metadata of each chunk satisfy 0 <= overlap_config < chunk_size_config <=
\* MAX_CHUNK_SIZE, also when the chunk_size asked for exceeds MAX_CHUNK_SIZE.
C23_EffectiveConfigOrdered ==
    (ChunkDone /\ cres.exc = "none")
    => \A i \in 1..Len(cres.chunks) :
          LET md == cres.chunks[i].metadata
          IN  /\ 0 <= md.overlap_config
              /\ md.overlap_config < md.chunk_size_config
              /\ md.chunk_size_config <= MAX_CHUNK_SIZE

\* ------------------------------------------------ claims on usage counters
\* C22: a generate_embedding or generate_embeddings_batch call that ends in an
\* error leaves total_tokens and total_cost as they were when the call began.
C22_FailedCallLeavesUsage ==
    /\ (CallDone /\ eres.status = "raised")
         => (total_tokens = eres.before /\ total_cost = cost(eres.before))
    /\ (BatchDone /\ bres.status = "raised")
         => (total_tokens = bres.before /\ total_cost = cost(bres.before))

\* ------------------------------------------------- claims on Conversation
\* The last n elements of a list.
LastN(s, n) == SubSeq(s, Len(s) - n + 1, Len(s))

\* C28: get_context_messages(limit) returns, for every message list and every
\* limit >= 0, the last min(limit, len(messages)) messages in their order, and
\* leaves the stored list as it was.
C28_LastMessagesReturned ==
    context.limit >= 0
    => /\ context.result = LastN(context.of, Min(context.limit, Len(context.of)))
       /\ messages = context.of

\* ---------------------------------------- claims on get_embedding_service
\* C30: get_embedding_service gives every caller the same EmbeddingService
\* instance, also when the first calls arrive concurrently: at most one
\* instance is ever constructed.
C30_OneInstance ==
    /\ created <= 1
    /\ \A t, u \in Callers :
          (gpc[t] = "done" /\ gpc[u] = "done") => gret[t] = gret[u]

\* ------------------------------------------------ claims on the chunk store
\* create_document_chunks ran last and has ended, for a document that exists
\* and a list that is not empty, and its commit, if it came to one, went
\* through.
PipelineRan ==
    /\ store_op.name = "create_document_chunks"
    /\ ppc = "idle"
    /\ store_op.doc \in Documents
    /\ store_op.chunks # <<>>
    /\ store_res.status_code # 500

\* C25: create_document_chunks persists the chunks whose embedding succeeded
\* and no others, returns them in input order, and gives its caller the failed
\* chunks apart from them; when every chunk fails nothing is persisted and the
\* call fails with an error.
C25_PartialFailureReported ==
    PipelineRan
    => /\ store_res.detail = store_op.failed
       /\ Len(store_op.created) + Len(store_op.failed) = Len(store_op.chunks)
       /\ IF store_op.created = <<>>
          THEN /\ store_res.exc = "HTTPException"
               /\ db_chunks = store_op.before
          ELSE /\ store_res.exc = "none"
               /\ db_chunks = store_op.before \o store_res.chunks
               /\ [i \in 1..Len(store_res.chunks) |-> store_res.chunks[i].chunk_index]
                    = store_op.created

\* The chunk_index values of the rows of a document, as a set.
IndexesOf(doc) ==
    {db_chunks[i].chunk_index :
        i \in {j \in 1..Len(db_chunks) : db_chunks[j].document_processing_id = doc}}

RowsOf(doc) == {j \in 1..Len(db_chunks) : db_chunks[j].document_processing_id = doc}

\* C26: after any sequence of chunk-store operations the chunk_index values
\* of the rows of each document are 0..n-1, n being the number of its rows.
C26_IndexesContiguous ==
    ppc = "idle"
    => \A doc \in DocIds : IndexesOf(doc) = 0..(Cardinality(RowsOf(doc)) - 1)

\* C27: after update_chunk_metadata the metadata of the chunk has every key of
\* the update with its new value and every other key it had with its old
\* value; chunk_text, chunk_index, embedding and every other row are as they
\* were; for an unknown chunk id the call returns None and changes nothing.
C27_MetadataMerged ==
    store_op.name = "update_chunk_metadata"
    => LET before == store_op.before
           upd == store_op.metadata
           known == \E i \in 1..Len(before) : before[i].id = store_op.chunk_id
       IN  IF ~known
           THEN store_res.found = FALSE /\ db_chunks = before
           ELSE /\ store_res.found
                /\ Len(db_chunks) = Len(before)
                /\ \A i \in 1..Len(before) :
                     IF before[i].id # store_op.chunk_id
                     THEN db_chunks[i] = before[i]
                     ELSE LET old == before[i].chunk_metadata
                              new == db_chunks[i].chunk_metadata
                          IN  /\ store_res.chunks = <<db_chunks[i]>>
                              /\ DOMAIN new = (DOMAIN old) \cup (DOMAIN upd)
                              /\ \A k \in DOMAIN upd : new[k] = upd[k]
                              /\ \A k \in (DOMAIN old) \ (DOMAIN upd) : new[k] = old[k]
                              /\ db_chunks[i].id = before[i].id
                              /\ db_chunks[i].chunk_text = before[i].chunk_text
                              /\ db_chunks[i].chunk_index = before[i].chunk_index
                              /\ db_chunks[i].embedding = before[i].embedding
                              /\ db_chunks[i].document_processing_id
                                   = before[i].document_processing_id

====
